---------------------------- MODULE Spec2Model ----------------------------
(***************************************************************************)
(* Model of pyowmaster: the priority scheduler (prisched.py), the event    *)
(* dispatcher and the threaded event handler (event/handler.py), the       *)
(* action handler's bus access (event/actionhandler.py, action/setpio.py), *)
(* the device inventory, the scans and the main loop of OwMaster           *)
(* (__init__.py), the PIO devices (device/pio.py, DS2406.py, DS2408.py),   *)
(* the MoaT device and its port channels (device/MoaT.py), the action      *)
(* handler's event bookkeeping (event/actionhandler.py), parse_target      *)
(* (owidutil.py) and the InfluxDB handler (event/influxdbhandler.py).      *)
(***************************************************************************)
EXTENDS Integers, Sequences, FiniteSets, TLC

VARIABLES
    \* ---- prisched.scheduler / prisched.Queue ----
    clock,        \* value returned by scheduler.time()
    addr,         \* ordering of the action callables (Python 2 orders functions by identity)
    queues,       \* scheduler._queues: one heapq array per Queue, highest priority first
    qconf,        \* per queue: min_dispatch, max_dispatch
    pc,           \* position of scheduler.run: idle, pass, dispatch, endpass, done
    num_queues,   \* run(): num_queues = len(q), read once when run starts
    now,          \* run(): now of the current pass
    next_at,      \* run(): next_at of the current pass
    qi,           \* run(): index of the queue being dispatched (1-based)
    dispatched,   \* Queue.dispatch: events executed so far in this call
    nextSeq,      \* history: number of events entered so far (entry order)
    execLog,      \* history: executed events in execution order (a re-entered task once)
    passInfo,     \* history: what the first queue held and did in the current pass
    lastDispatch, \* history: summary of the dispatch call that returned last
    dueAtCall,    \* history: events due at `now` when the current dispatch call began
    lastPop       \* history: the event popped last and what stayed behind in its queue

schedVars == <<clock, addr, queues, qconf, pc, num_queues, now, next_at, qi,
               dispatched, nextSeq, execLog, passInfo, lastDispatch, dueAtCall, lastPop>>

VARIABLES
    \* ---- event/handler.py: ThreadedOwEventHandler (the action handler) ----
    maxsize,      \* Queue.Queue(maxsize=max_queue_size); 0 is unbounded
    tq,           \* contents of self.queue
    unfinished,   \* Queue.unfinished_tasks (put increments, task_done decrements)
    wpc,          \* position of the worker thread (_run)
    wev,          \* _run: the event taken from the queue
    mpc,          \* position of the main (scheduler) thread
    mev,          \* main thread: the event passed to handle_event
    nextEv,       \* history: events emitted so far + 1
    emitted,      \* history: events passed to handle_event
    handledLog    \* history: events passed to handle_event_blocking

thrVars == <<maxsize, tq, unfinished, wpc, wev, mpc, mev, nextEv, emitted, handledLog>>

VARIABLES
    \* ---- event/handler.py: OwEventDispatcher ----
    paused,       \* self.paused
    pause_queue,  \* self.pause_queue
    delivered,    \* per registered handler: the events its handle_event was called with
    dNext         \* history: events passed to the dispatcher so far + 1

dispVars == <<paused, pause_queue, delivered, dNext>>

VARIABLES
    \* ---- event/handler.py: OwEventDispatcher with handlers that may raise ----
    handlers,     \* self.handlers: per handler what its handle_event and shutdown do
    lastEmit,     \* history: the last event emitted and the handle_event calls made for it
    sdCalls,      \* history: the handlers whose shutdown was called, in call order
    epc,          \* position of OwMaster: running, sd_done
    eNext         \* history: events emitted so far + 1

emitVars == <<handlers, lastEmit, sdCalls, epc, eNext>>

VARIABLES
    \* ---- __init__.py: DeviceInventory, DeviceFactory, OwMaster._scan ----
    devices,        \* DeviceInventory.devices: per ID absent, False (unsupported) or a device
    aliases,        \* DeviceInventory.aliases: alias -> ID
    factory_config, \* DeviceFactory.config, set once in DeviceFactory.__init__
    hashOrder,      \* the order in which a dict or set of IDs is iterated (Python 2: by hash)
    createCount,    \* history: calls of DeviceFactory.create per ID
    nextInst,       \* history: device objects constructed so far + 1
    lastOp,         \* history: the operation that ran last: init, refresh, scan, find
    lastFind,       \* history: the last find call and what it returned
    lastScan,       \* history: the last _scan: its enumeration and the tasks it entered
    lastRefresh     \* history: the last refresh_config and what an earlier one with the
                    \* same config had left

invVars == <<devices, aliases, factory_config, hashOrder, createCount, nextInst,
             lastOp, lastFind, lastScan, lastRefresh>>

VARIABLES
    \* ---- __init__.py: OwMaster.main, _mainloop, scan, simultaneous_temperature ----
    bus,            \* the DS1820 sensors on the 1-Wire bus: 0 or 1
    link,           \* the connection to owserver: flaky (any call may fail) or down
    horizon,        \* no scan task starts after this time
    scan_interval,  \* self.scan_interval: <<full, alarm>>, in ticks
    scan_conn_errs, \* self.scan_conn_errs
    simultaneous_temperature_pending,  \* self.simultaneous_temperature_pending
    mlpc,           \* position of main: setup, scan_full, scan_alarm, run, crashed
    exc,            \* the exception that is propagating out of scheduler.run, or "none"
    lastScanRun,    \* history: the last call of scan() and what it did
    lastBatch,      \* history: the last simultaneous/temperature write
    lastRead,       \* history: the last read_temperature call of a batch
    owed            \* history: the tasks (callable, queue) that were queued when a task
                    \* raised and have not been executed since

masterVars == <<bus, link, horizon, scan_interval, scan_conn_errs, simultaneous_temperature_pending,
                mlpc, exc, lastScanRun, lastBatch, lastRead, owed>>

VARIABLES
    \* ---- device/pio.py: OwPIODevice (DS2406, DS2408) and the chip it drives ----
    pio_type,       \* the class of the device: DS2406 or DS2408
    channels,       \* self.channels: per channel (0-based num + 1) its mode
    wanted_alarm,   \* self.wanted_alarm
    inital_setup_done,  \* self.inital_setup_done
    last_sensed,    \* self._last_sensed; None is -1
    chip_set_alarm, \* the chip's set_alarm property
    chip_latch,     \* the chip's activity latches (latch.BYTE)
    chip_sensed,    \* the chip's pin levels (sensed.BYTE)
    chip_por,       \* the chip's power-on reset flag (DS2408's por)
    lastAlarm       \* history: the last on_alarm call: bus operations, values read, events

pioVars == <<pio_type, channels, wanted_alarm, inital_setup_done, last_sensed,
             chip_set_alarm, chip_latch, chip_sensed, chip_por, lastAlarm>>

\* ---- OwPIODevice.on_alarm bus operation by bus operation ----
VARIABLES
    apc,            \* where on_alarm is
    latch_read,     \* on_alarm's local latch
    sensed_read,    \* on_alarm's local sensed
    announced       \* history: per channel the value of the last event emitted

stepVars == <<apc, latch_read, sensed_read, announced>>

\* ---- a MoaT device (device/MoaT.py) with the channels adc.1 and count.1 ----
VARIABLES
    adc_states,     \* adc.1's self.states: (name, low, high, guess), sorted by low
    current_state,  \* adc.1's self.current_state
    adc_value,      \* adc.1's self.value
    wanted_low_threshold,   \* adc.1's self.wanted_low_threshold; None is -1
    wanted_high_threshold,  \* adc.1's self.wanted_high_threshold; None is -1
    ignore_next_silent_alarm,   \* the device's self.ignore_next_silent_alarm
    lastCall        \* history: the last call: bus operations, events, what was raised

moatVars == <<adc_states, current_state, adc_value, wanted_low_threshold,
              wanted_high_threshold, ignore_next_silent_alarm, lastCall>>

\* ---- the port channels of a MoaT device (device/MoaT.py: MoaTPortChannel) ----
VARIABLES
    port_modes,     \* per channel port.N its self.mode
    port_values,    \* per channel port.N its self.value, the cached value
    lastPort        \* history: the last call on a port channel and what it did

portVars == <<port_modes, port_values, lastPort>>

\* ---- ActionEventHandler.handle_event_blocking (event/actionhandler.py) ----
VARIABLES
    event_cfgs,     \* per configured event type its event_cfg: last_occurred and
                    \* last_ran; None is -1
    action_last_ran,    \* per action its self.last_ran; None is -1
    ctx_aliases,    \* the names in self.inventory.aliases
    atime,          \* time.time()
    occurred,       \* history: the event types that have occurred
    accepted,       \* history: the event types whose shared when has held
    lastHandled     \* history: the last handle_event_blocking call

ahVars == <<event_cfgs, action_last_ran, ctx_aliases, atime, occurred, accepted, lastHandled>>

\* ---- parse_target (owidutil.py) ----
VARIABLES
    target,         \* the string parse_target was called with, as its characters
    given,          \* history: the id and the channel the string was written from
    parsed          \* what parse_target returned: (dev_id, ch)

parseVars == <<target, given, parsed>>

\* ---- InfluxDBEventHandler (event/influxdbhandler.py) ----
VARIABLES
    influx_queue,       \* self.queue: the lines by number, oldest first; None is 0
    unfinished_tasks,   \* self.queue.unfinished_tasks
    max_queue_size,     \* self.max_queue_size
    hpc,                \* where the emitting thread is in handle_event
    next_line,          \* the number of lines formatted so far
    attempts,           \* history: the put calls of the current or last handle_event
    dropped,            \* history: the lines handle_event discarded
    rpc,                \* where the send thread is in _run
    batches,            \* the send thread's LineBatches.batches
    exit_requested,     \* the send thread's exit_requested
    last_send_ok,       \* the send thread's last_send_ok
    spc                 \* where the emitting thread is in shutdown

influxVars == <<influx_queue, unfinished_tasks, max_queue_size, hpc, next_line, attempts,
                dropped, rpc, batches, exit_requested, last_send_ok, spc>>

devVars == <<pioVars, stepVars, moatVars, portVars, ahVars, parseVars, influxVars>>

NonPio == <<stepVars, moatVars, portVars, ahVars, parseVars, influxVars>>
NonStep == <<moatVars, portVars, ahVars, parseVars, influxVars>>
NonMoat == <<pioVars, stepVars, portVars, ahVars, parseVars, influxVars>>
NonPort == <<pioVars, stepVars, moatVars, ahVars, parseVars, influxVars>>
NonAh == <<pioVars, stepVars, moatVars, portVars, parseVars, influxVars>>
NonParse == <<pioVars, stepVars, moatVars, portVars, ahVars, influxVars>>
NonInflux == <<pioVars, stepVars, moatVars, portVars, ahVars, parseVars>>

vars == <<schedVars, thrVars, dispVars, emitVars, invVars, masterVars, devVars>>

NonSched == <<thrVars, dispVars, emitVars, invVars, masterVars, devVars>>
NonThr == <<schedVars, dispVars, emitVars, invVars, masterVars, devVars>>
NonDisp == <<schedVars, thrVars, emitVars, invVars, masterVars, devVars>>
NonEmit == <<schedVars, thrVars, dispVars, invVars, masterVars, devVars>>
NonInv == <<schedVars, thrVars, dispVars, emitVars, masterVars, devVars>>
NonMaster == <<thrVars, dispVars, emitVars, invVars, devVars>>
NonDev == <<schedVars, thrVars, dispVars, emitVars, invVars, masterVars>>

---------------------------------------------------------------------------
\* Bounds of the model
MaxTime == 1        \* the clock and all due times range over 0..MaxTime
MaxEvents == 3      \* events entered before run() is called
MaxQueues == 2      \* queues created on the scheduler
MaxSpawned == 1     \* events entered by running actions

\* the action callables entered into the queues
ActNoop == 1        \* returns without touching the scheduler
ActSpawn == 2       \* enters one further event into some queue
ActRepeat == 3      \* re-enters itself with delay 0 (a periodic task such as scan)
ActLow == 4         \* scenario S6: a low-priority task; the one with argument 1 enters H2
Actions == {ActNoop, ActSpawn, ActRepeat, ActLow}

\* (min_dispatch, max_dispatch) pairs given to create_queue
DefaultMinDispatch == 1
DefaultMaxDispatch == 10000
DispatchConfigs ==
    { [min_dispatch |-> DefaultMinDispatch, max_dispatch |-> DefaultMaxDispatch],
      [min_dispatch |-> 1, max_dispatch |-> 1],
      [min_dispatch |-> 2, max_dispatch |-> 2] }

\* the (action, argument) pairs the program enters before run()
SetupTasks == { <<ActNoop, <<1>>>>, <<ActNoop, <<2>>>>, <<ActSpawn, <<1>>>> }

Min(a, b) == IF a < b THEN a ELSE b

---------------------------------------------------------------------------
\* Event = namedtuple('Event', 'time, action, argument'); seq is not a field
\* of the tuple, it only records the order of entry.
Event(t, a, arg, s) == [time |-> t, action |-> a, argument |-> arg, seq |-> s]

\* list < list on argument lists of length 0 or 1
ArgLess(x, y) ==
    \/ Len(x) = 0 /\ Len(y) > 0
    \/ Len(x) > 0 /\ Len(y) > 0 /\ x[1] < y[1]

\* tuple comparison of two Events: time, then action, then argument
EventLess(a, b) ==
    \/ a.time < b.time
    \/ /\ a.time = b.time
       /\ \/ addr[a.action] < addr[b.action]
          \/ a.action = b.action /\ ArgLess(a.argument, b.argument)

\* heapq._siftdown(heap, startpos, pos); positions are 0-based as in heapq
RECURSIVE SiftDown(_, _, _, _)
SiftDown(heap, startpos, pos, newitem) ==
    IF pos > startpos
    THEN LET parentpos == (pos - 1) \div 2
             parent == heap[parentpos + 1]
         IN  IF EventLess(newitem, parent)
             THEN SiftDown([heap EXCEPT ![pos + 1] = parent], startpos, parentpos, newitem)
             ELSE [heap EXCEPT ![pos + 1] = newitem]
    ELSE [heap EXCEPT ![pos + 1] = newitem]

\* heapq._siftup(heap, pos)
RECURSIVE SiftUp(_, _, _, _)
SiftUp(heap, startpos, pos, newitem) ==
    LET endpos == Len(heap)
        childpos == 2 * pos + 1
        rightpos == childpos + 1
    IN  IF childpos < endpos
        THEN LET c == IF rightpos < endpos
                         /\ ~EventLess(heap[childpos + 1], heap[rightpos + 1])
                      THEN rightpos ELSE childpos
             IN  SiftUp([heap EXCEPT ![pos + 1] = heap[c + 1]], startpos, c, newitem)
        ELSE SiftDown([heap EXCEPT ![pos + 1] = newitem], startpos, pos, newitem)

\* heapq.heappush(heap, item)
HeapPush(heap, item) ==
    SiftDown(Append(heap, item), 0, Len(heap), item)

\* heapq.heappop(heap): the heap that remains (the popped item is heap[1])
HeapPop(heap) ==
    LET lastelt == heap[Len(heap)]
        rest == SubSeq(heap, 1, Len(heap) - 1)
    IN  IF rest = <<>> THEN rest
        ELSE SiftUp([rest EXCEPT ![1] = lastelt], 0, 0, lastelt)

\* Queue.enterabs(at_time, action, argument) on queue q
Enterabs(qs, q, at_time, action, argument, s) ==
    [qs EXCEPT ![q] = HeapPush(qs[q], Event(at_time, action, argument, s))]

DueCount(heap, t) == Cardinality({k \in 1..Len(heap) : heap[k].time <= t})

---------------------------------------------------------------------------
NoDispatch == [queue |-> 0, min_dispatch |-> 0, max_dispatch |-> 0,
               due |-> 0, executed |-> 0, not_later_than |-> 0]
NoPass == [due |-> 0, executed |-> 0]
NoPop == [queue |-> 0, event |-> Event(0, ActNoop, <<>>, 0), rest |-> <<>>]

\* the run() locals and the history before run() is called
RunNotStarted ==
    /\ now = 0
    /\ next_at = 0
    /\ qi = 0
    /\ dispatched = 0
    /\ execLog = <<>>
    /\ passInfo = NoPass
    /\ lastDispatch = NoDispatch
    /\ dueAtCall = 0
    /\ lastPop = NoPop

\* Queue.get() returns None for the sentinel that shutdown() puts
None == [id |-> 0, kind |-> "none"]

\* ThreadedOwEventHandler.__init__ with the defaults; the thread is not started
ThrIdle ==
    /\ maxsize = 0
    /\ tq = <<>>
    /\ unfinished = 0
    /\ wpc = "notstarted"
    /\ wev = None
    /\ mpc = "run"
    /\ mev = None
    /\ nextEv = 1
    /\ emitted = <<>>
    /\ handledLog = <<>>

\* OwEventDispatcher.__init__
DispIdle ==
    /\ paused = FALSE
    /\ pause_queue = <<>>
    /\ delivered = <<>>
    /\ dNext = 1

\* OwEventDispatcher.__init__: self.handlers = []
NoEmit == [event |-> 0, calls |-> <<>>]

EmitIdle ==
    /\ handlers = <<>>
    /\ lastEmit = NoEmit
    /\ sdCalls = <<>>
    /\ epc = "running"
    /\ eNext = 1

\* 1-wire IDs: <<family code, serial>>
DevIds == { <<"10", "A">>, <<"10", "B">>, <<"FF", "A">> }
NoId == <<"", "">>

\* alias names used in the configuration documents
Aliases == {"a"}
NoAlias == "none"

\* an entry of DeviceInventory.devices
Absent == [kind |-> "absent", inst |-> 0, alias |-> NoAlias, lost |-> FALSE]
Unsupported == [kind |-> "unsupported", inst |-> 0, alias |-> NoAlias, lost |-> FALSE]

\* a configuration document, as far as the inventory reads it: per ID "-" (not
\* mentioned), "none" (mentioned without alias) or the alias
EmptyConfig == [id \in DevIds |-> "-"]

NoFind == [id |-> NoId, create |-> FALSE, before |-> "absent", result |-> NoId]
NoScan == [alarm_mode |-> FALSE, ids |-> <<>>, ok |-> FALSE, tasks |-> <<>>,
           simultaneous |-> <<>>, lostBefore |-> {}]
NoRefresh == [config |-> EmptyConfig, n |-> 0, devices |-> <<>>, aliases |-> <<>>]

\* the inventory before DeviceInventory.__init__ has run
InvIdle ==
    /\ devices = [id \in DevIds |-> Absent]
    /\ aliases = [a \in Aliases |-> NoId]
    /\ factory_config = EmptyConfig
    /\ hashOrder = <<>>
    /\ createCount = [id \in DevIds |-> 0]
    /\ nextInst = 1
    /\ lastOp = "none"
    /\ lastFind = NoFind
    /\ lastScan = NoScan
    /\ lastRefresh = NoRefresh

\* OwMaster before main() is called
NoScanRun == [scan_mode |-> -1, at |-> 0, errs_before |-> 0, scan_ok |-> FALSE,
              conn_error |-> FALSE, raised |-> "none", errs_after |-> 0]
NoBatch == [written |-> FALSE, pending_before |-> FALSE]
NoRead == [called |-> FALSE, elapsed |-> 0]

MasterIdle ==
    /\ bus = 0
    /\ link = "down"
    /\ horizon = 0
    /\ scan_interval = <<0, 0>>
    /\ scan_conn_errs = 0
    /\ simultaneous_temperature_pending = FALSE
    /\ mlpc = "setup"
    /\ exc = "none"
    /\ lastScanRun = NoScanRun
    /\ lastBatch = NoBatch
    /\ lastRead = NoRead
    /\ owed = {}

\* no PIO device has been created
NoAlarm == [ops |-> <<>>, failed |-> "none", handled |-> FALSE, alarm |-> "",
            written |-> "",
            latch |-> 0, sensed |-> 0,
            last_sensed |-> -1, events |-> <<>>]

PioIdle ==
    /\ pio_type = "none"
    /\ channels = <<>>
    /\ wanted_alarm = ""
    /\ inital_setup_done = FALSE
    /\ last_sensed = -1
    /\ chip_set_alarm = ""
    /\ chip_latch = 0
    /\ chip_sensed = 0
    /\ chip_por = 0
    /\ lastAlarm = NoAlarm

StepIdle ==
    /\ apc = "none"
    /\ latch_read = 0
    /\ sensed_read = 0
    /\ announced = <<>>

NoCall == [op |-> "none", sources |-> <<>>, log |-> <<>>, events |-> <<>>, raised |-> "none",
           warned |-> FALSE,
           state_before |-> "None", value |-> 0, crossed |-> "", ignore_before |-> FALSE]

MoatIdle ==
    /\ adc_states = <<>>
    /\ current_state = "None"
    /\ adc_value = 0
    /\ wanted_low_threshold = -1
    /\ wanted_high_threshold = -1
    /\ ignore_next_silent_alarm = FALSE
    /\ lastCall = NoCall

NoPortCall ==
    [op |-> "none", ch |-> 0, prev_value |-> 0, read |-> 0, events |-> <<>>,
     raised |-> "none", written |-> -1]

PortIdle ==
    /\ port_modes = <<>>
    /\ port_values = <<>>
    /\ lastPort = NoPortCall

PyNoneValue == [kind |-> "None", n |-> 0]

NotHandled ==
    [matched |-> FALSE, event_type |-> "", timestamp |-> 0, at |-> 0, first |-> FALSE,
     first_accepted |-> FALSE, since_last_event |-> PyNoneValue,
     since_last_run |-> PyNoneValue, when |-> "", outcomes |-> <<>>, raised |-> FALSE]

AhIdle ==
    /\ event_cfgs = <<>>
    /\ action_last_ran = <<>>
    /\ ctx_aliases = {}
    /\ atime = 0
    /\ occurred = {}
    /\ accepted = {}
    /\ lastHandled = NotHandled

ParseIdle ==
    /\ target = <<>>
    /\ given = <<>>
    /\ parsed = <<>>

InfluxIdle ==
    /\ influx_queue = <<>>
    /\ unfinished_tasks = 0
    /\ max_queue_size = 0
    /\ hpc = "none"
    /\ next_line = 0
    /\ attempts = 0
    /\ dropped = {}
    /\ rpc = "none"
    /\ batches = <<>>
    /\ exit_requested = 0
    /\ last_send_ok = TRUE
    /\ spc = "none"

DevIdle ==
    /\ PioIdle
    /\ MoatIdle
    /\ StepIdle
    /\ PortIdle
    /\ AhIdle
    /\ ParseIdle
    /\ InfluxIdle

\* the scheduler as it is before any queue is created
SchedIdle ==
    /\ clock = 0
    /\ addr = [a \in Actions |-> a]
    /\ queues = <<>>
    /\ qconf = <<>>
    /\ pc = "idle"
    /\ num_queues = 0
    /\ nextSeq = 1
    /\ RunNotStarted

\* scheduler, handlers, inventory and master as they are before anything is set up
CoreIdle ==
    /\ SchedIdle
    /\ ThrIdle
    /\ DispIdle
    /\ EmitIdle
    /\ InvIdle
    /\ MasterIdle

\* the identity order of the callables is whatever the interpreter gave them
AddrOrders ==
    {f \in [Actions -> 1..Cardinality(Actions)] :
        /\ \A a, b \in Actions : a # b => f[a] # f[b]
        /\ f[ActRepeat] = 3 /\ f[ActLow] = 4}

\* scheduler.__init__: no queues yet
SchedInit ==
    /\ ThrIdle
    /\ DispIdle
    /\ EmitIdle
    /\ InvIdle
    /\ MasterIdle
    /\ DevIdle
    /\ clock = 0
    /\ addr \in AddrOrders
    /\ queues = <<>>
    /\ qconf = <<>>
    /\ pc = "idle"
    /\ num_queues = 0
    /\ nextSeq = 1
    /\ RunNotStarted

\* the clock advances on its own
Tick ==
    /\ clock < MaxTime
    /\ clock' = clock + 1
    /\ UNCHANGED <<addr, queues, qconf, pc, num_queues, now, next_at, qi, dispatched,
                   nextSeq, execLog, passInfo, lastDispatch, dueAtCall, lastPop>>
    /\ UNCHANGED NonSched

\* scheduler.create_queue(min_dispatch, max_dispatch)
CreateQueue(cfg) ==
    /\ pc = "idle"
    /\ Len(queues) < MaxQueues
    /\ nextSeq = 1
    /\ queues' = Append(queues, <<>>)
    /\ qconf' = Append(qconf, cfg)
    /\ UNCHANGED <<clock, addr, pc, num_queues, now, next_at, qi, dispatched,
                   nextSeq, execLog, passInfo, lastDispatch, dueAtCall, lastPop>>
    /\ UNCHANGED NonSched

\* Queue.enterabs called by the program before run()
SetupEnterabs(q, at_time, action, argument) ==
    /\ pc = "idle"
    /\ q \in 1..Len(queues)
    /\ nextSeq <= MaxEvents
    /\ queues' = Enterabs(queues, q, at_time, action, argument, nextSeq)
    /\ nextSeq' = nextSeq + 1
    /\ UNCHANGED <<clock, addr, qconf, pc, num_queues, now, next_at, qi, dispatched,
                   execLog, passInfo, lastDispatch, dueAtCall, lastPop>>
    /\ UNCHANGED NonSched

\* scheduler.run(): q = self._queues; do_run = True; num_queues = len(q)
RunStart ==
    /\ pc = "idle"
    /\ pc' = "pass"
    /\ num_queues' = Len(queues)
    /\ UNCHANGED <<clock, addr, queues, qconf, now, next_at, qi, dispatched,
                   nextSeq, execLog, passInfo, lastDispatch, dueAtCall, lastPop>>
    /\ UNCHANGED NonSched

\* run(): top of the while loop: next_at = 0; now = self.time(); then the
\* first dispatch call (or straight to the end of the pass without queues)
PassBegin ==
    /\ pc = "pass"
    /\ next_at' = 0
    /\ now' = clock
    /\ dispatched' = 0
    /\ IF num_queues = 0
       THEN /\ pc' = "endpass"
            /\ qi' = 0
            /\ passInfo' = NoPass
            /\ dueAtCall' = 0
       ELSE /\ pc' = "dispatch"
            /\ qi' = 1
            /\ passInfo' = [due |-> DueCount(queues[1], clock), executed |-> 0]
            /\ dueAtCall' = DueCount(queues[1], clock)
    /\ UNCHANGED <<clock, addr, queues, qconf, num_queues, nextSeq, execLog,
                   lastDispatch, lastPop>>
    /\ UNCHANGED NonSched

\* Queue.dispatch: the value the call returns now, or -1 when it goes on to
\* pop and execute the head
DispatchReturnValue(heap, cfg, t_now, not_later_than, n, t_real) ==
    IF heap = <<>> THEN 0
    ELSE IF t_now < heap[1].time THEN heap[1].time
    ELSE IF n >= cfg.min_dispatch
            /\ (n < cfg.max_dispatch
                \/ (not_later_than > 0 /\ t_real >= not_later_than))
         THEN heap[1].time
    ELSE -1

\* Queue.dispatch returns qAt; run() folds it into next_at and moves on to the
\* next queue or to the end of the pass
DispatchReturn ==
    /\ pc = "dispatch"
    /\ LET qAt == DispatchReturnValue(queues[qi], qconf[qi], now, next_at, dispatched, clock)
       IN  /\ qAt # -1
           /\ next_at' = IF qAt # 0 /\ (next_at = 0 \/ qAt < next_at) THEN qAt ELSE next_at
    /\ lastDispatch' = [queue |-> qi,
                        min_dispatch |-> qconf[qi].min_dispatch,
                        max_dispatch |-> qconf[qi].max_dispatch,
                        due |-> dueAtCall,
                        executed |-> dispatched,
                        not_later_than |-> next_at]
    /\ dispatched' = 0
    /\ IF qi < num_queues
       THEN /\ qi' = qi + 1
            /\ pc' = "dispatch"
            /\ dueAtCall' = DueCount(queues[qi + 1], now)
       ELSE /\ qi' = 0
            /\ pc' = "endpass"
            /\ dueAtCall' = 0
    /\ UNCHANGED <<clock, addr, queues, qconf, num_queues, now, nextSeq, execLog,
                   passInfo, lastPop>>
    /\ UNCHANGED NonSched

\* Queue.dispatch: event = pop(q); action(*argument); dispatched += 1.
\* after(qs) is what the action left in the queues, entered the number of
\* events it entered.
Execute(action, after, entered) ==
    /\ pc = "dispatch"
    /\ DispatchReturnValue(queues[qi], qconf[qi], now, next_at, dispatched, clock) = -1
    /\ queues[qi][1].action = action
    /\ LET event == queues[qi][1]
           popped == [queues EXCEPT ![qi] = HeapPop(queues[qi])]
       IN  /\ queues' = after
           /\ lastPop' = [queue |-> qi, event |-> event, rest |-> popped[qi]]
           /\ execLog' = IF \E k \in 1..Len(execLog) : execLog[k].event.seq = event.seq
                         THEN execLog
                         ELSE Append(execLog, [queue |-> qi, event |-> event])
    /\ dispatched' = dispatched + 1
    /\ nextSeq' = nextSeq + entered
    /\ passInfo' = IF qi = 1 THEN [passInfo EXCEPT !.executed = @ + 1] ELSE passInfo
    /\ UNCHANGED <<clock, addr, qconf, pc, num_queues, now, next_at, qi,
                   lastDispatch, dueAtCall>>

Popped == [queues EXCEPT ![qi] = HeapPop(queues[qi])]

\* an action that does not touch the scheduler
ExecNoop == Execute(ActNoop, Popped, 0) /\ UNCHANGED NonSched

\* an action that enters one more event: queue.enterabs(t, ...) or
\* queue.enter(delay, ...) with at_time = timefunc() + delay
ExecSpawn ==
    \E q \in 1..MaxQueues, t \in 0..MaxTime :
        /\ q <= Len(queues)
        /\ IF nextSeq <= MaxEvents + MaxSpawned
           THEN Execute(ActSpawn, Enterabs(Popped, q, t, ActNoop, <<1>>, nextSeq), 1)
           ELSE Execute(ActSpawn, Popped, 0)
        /\ UNCHANGED NonSched

\* a periodic task: re-enters itself on its own queue with queue.enter(0, ...),
\* at_time = timefunc() + 0
ExecRepeat ==
    /\ pc = "dispatch"
    /\ queues[qi] # <<>>
    /\ Execute(ActRepeat,
               Enterabs(Popped, qi, clock, ActRepeat, queues[qi][1].argument, queues[qi][1].seq),
               0)
    /\ UNCHANGED NonSched

\* scenario S6: the low-priority task with argument 1 enters the high-priority
\* event H2, due at the time the scenario's events are due; the others only run
ExecLow ==
    /\ pc = "dispatch"
    /\ queues[qi] # <<>>
    /\ IF queues[qi][1].argument = <<1>>
       THEN Execute(ActLow, Enterabs(Popped, 1, queues[qi][1].time, ActNoop, <<2>>, nextSeq), 1)
       ELSE Execute(ActLow, Popped, 0)
    /\ UNCHANGED NonSched

\* run(): if next_at == 0: return; else delay until next_at when it lies in
\* the future, and loop
EndPass ==
    /\ pc = "endpass"
    /\ IF next_at = 0
       THEN /\ pc' = "done"
            /\ clock' = clock
       ELSE /\ pc' = "pass"
            /\ clock' = IF next_at > clock THEN next_at ELSE clock
    /\ UNCHANGED <<addr, queues, qconf, num_queues, now, next_at, qi, dispatched,
                   nextSeq, execLog, passInfo, lastDispatch, dueAtCall, lastPop>>
    /\ UNCHANGED NonSched

SchedNext ==
    \/ Tick
    \/ \E cfg \in DispatchConfigs : CreateQueue(cfg)
    \/ \E q \in 1..MaxQueues, t \in 0..MaxTime, task \in SetupTasks :
          SetupEnterabs(q, t, task[1], task[2])
    \/ RunStart
    \/ PassBegin
    \/ DispatchReturn
    \/ ExecNoop
    \/ ExecSpawn
    \/ EndPass

Spec == SchedInit /\ [][SchedNext]_vars

---------------------------------------------------------------------------
\* Scenario S6: queue-high (defaults) holds H1, queue-low (min_dispatch 1,
\* max_dispatch 10) holds L1..L10, all due at the same time; run() is called.
S6LowCount == 10
S6MaxDispatch == 10

RECURSIVE S6LowHeap(_, _)
S6LowHeap(t, n) ==
    IF n = 0 THEN <<>>
    ELSE HeapPush(S6LowHeap(t, n - 1), Event(t, ActLow, <<n>>, n + 1))

S6Init ==
    /\ ThrIdle
    /\ DispIdle
    /\ EmitIdle
    /\ InvIdle
    /\ MasterIdle
    /\ DevIdle
    /\ clock = 0
    /\ addr \in AddrOrders
    /\ \E t \in 0..MaxTime :
          queues = << HeapPush(<<>>, Event(t, ActNoop, <<1>>, 1)), S6LowHeap(t, S6LowCount) >>
    /\ qconf = << [min_dispatch |-> DefaultMinDispatch, max_dispatch |-> DefaultMaxDispatch],
                  [min_dispatch |-> 1, max_dispatch |-> S6MaxDispatch] >>
    /\ pc = "idle"
    /\ num_queues = 0
    /\ nextSeq = S6LowCount + 2
    /\ RunNotStarted

S6Next ==
    \/ Tick
    \/ RunStart
    \/ PassBegin
    \/ DispatchReturn
    \/ ExecNoop
    \/ ExecLow
    \/ EndPass

S6Spec == S6Init /\ [][S6Next]_vars

---------------------------------------------------------------------------
\* A periodic high-priority task against a finite low-priority queue: the
\* high queue (defaults, as OwMaster creates it) holds a task that re-enters
\* itself with delay 0, the low queue holds one or two events; run() is called.
LiveInit ==
    /\ ThrIdle
    /\ DispIdle
    /\ EmitIdle
    /\ InvIdle
    /\ MasterIdle
    /\ DevIdle
    /\ clock = 0
    /\ addr \in AddrOrders
    /\ \E th \in 0..MaxTime, t1 \in 0..MaxTime, t2 \in 0..MaxTime, n \in 1..2 :
          queues = << HeapPush(<<>>, Event(th, ActRepeat, <<>>, 1)),
                      IF n = 1
                      THEN HeapPush(<<>>, Event(t1, ActNoop, <<1>>, 2))
                      ELSE HeapPush(HeapPush(<<>>, Event(t1, ActNoop, <<1>>, 2)),
                                    Event(t2, ActNoop, <<2>>, 3)) >>
    /\ \E cfg \in DispatchConfigs :
          qconf = << [min_dispatch |-> DefaultMinDispatch, max_dispatch |-> DefaultMaxDispatch],
                     cfg >>
    /\ pc = "idle"
    /\ num_queues = 0
    /\ nextSeq = 4
    /\ RunNotStarted

RunSteps ==
    \/ RunStart
    \/ PassBegin
    \/ DispatchReturn
    \/ ExecNoop
    \/ ExecRepeat
    \/ EndPass

LiveNext ==
    \/ Tick
    \/ RunStart
    \/ PassBegin
    \/ DispatchReturn
    \/ ExecNoop
    \/ ExecRepeat
    \/ EndPass

\* run() is not preempted for ever and every action returns
FairSpec == LiveInit /\ [][LiveNext]_vars /\ WF_vars(RunSteps)

---------------------------------------------------------------------------
\* ThreadedOwEventHandler as the action handler uses it: the main thread runs
\* scheduler tasks (bus I/O, emitting events) and finally shutdown(); the
\* worker thread runs _run().
MaxEmit == 3          \* events emitted to the handler
MaxQueueSize == 2     \* largest max_queue_size configured

\* what handle_event_blocking does with an event: nothing that touches the bus
\* (no action configured, a shell action), a setpio action, or it raises
EventKinds == {"plain", "setpio", "raise"}

\* ActionEventHandler.__init__: super().__init__(max_queue_size); self.start()
ThrInit ==
    /\ SchedIdle
    /\ DispIdle
    /\ EmitIdle
    /\ InvIdle
    /\ MasterIdle
    /\ DevIdle
    /\ maxsize \in 0..MaxQueueSize
    /\ tq = <<>>
    /\ unfinished = 0
    /\ wpc = "get"
    /\ wev = None
    /\ mpc = "run"
    /\ mev = None
    /\ nextEv = 1
    /\ emitted = <<>>
    /\ handledLog = <<>>

\* Queue.put blocks while maxsize > 0 and qsize() >= maxsize
QueueFull(q) == maxsize > 0 /\ Len(q) >= maxsize

\* _run: `if event:` / `if not event:`; an event object is true, None is not
TruthyOnlyPio(e) == e.kind = "setpio"
Truthy(e) == e # None

\* threading.Thread.join returns once _run has returned
ThreadJoinReturns == wpc = "exited"

\* a scheduler task starts an operation on the owserver connection
MainBusBegin ==
    /\ mpc = "run"
    /\ mpc' = "bus"
    /\ UNCHANGED <<maxsize, tq, unfinished, wpc, wev, mev, nextEv, emitted, handledLog>>
    /\ UNCHANGED NonThr

\* ... and the operation returns
MainBusEnd ==
    /\ mpc = "bus"
    /\ mpc' = "run"
    /\ UNCHANGED <<maxsize, tq, unfinished, wpc, wev, mev, nextEv, emitted, handledLog>>
    /\ UNCHANGED NonThr

\* ThreadedOwEventHandler.handle_event(event) is called: self.queue.put(event)
HandleEvent(kind) ==
    /\ mpc = "run"
    /\ nextEv <= MaxEmit
    /\ mev' = [id |-> nextEv, kind |-> kind]
    /\ emitted' = Append(emitted, mev')
    /\ nextEv' = nextEv + 1
    /\ mpc' = "put"
    /\ UNCHANGED <<maxsize, tq, unfinished, wpc, wev, handledLog>>
    /\ UNCHANGED NonThr

\* Queue.put returns: there was room, the item is queued
PutReturn ==
    /\ mpc = "put"
    /\ ~QueueFull(tq)
    /\ tq' = Append(tq, mev)
    /\ unfinished' = unfinished + 1
    /\ mev' = None
    /\ mpc' = "run"
    /\ UNCHANGED <<maxsize, wpc, wev, nextEv, emitted, handledLog>>
    /\ UNCHANGED NonThr

\* ThreadedOwEventHandler.shutdown() is called
Shutdown ==
    /\ mpc = "run"
    /\ mpc' = "sd_join"
    /\ UNCHANGED <<maxsize, tq, unfinished, wpc, wev, mev, nextEv, emitted, handledLog>>
    /\ UNCHANGED NonThr

\* shutdown: self.queue.join() returns when unfinished_tasks is 0
ShutdownQueueJoin ==
    /\ mpc = "sd_join"
    /\ unfinished = 0
    /\ mpc' = "sd_put"
    /\ UNCHANGED <<maxsize, tq, unfinished, wpc, wev, mev, nextEv, emitted, handledLog>>
    /\ UNCHANGED NonThr

\* shutdown: self.queue.put(None)
ShutdownPut ==
    /\ mpc = "sd_put"
    /\ ~QueueFull(tq)
    /\ tq' = Append(tq, None)
    /\ unfinished' = unfinished + 1
    /\ mpc' = "sd_tjoin"
    /\ UNCHANGED <<maxsize, wpc, wev, mev, nextEv, emitted, handledLog>>
    /\ UNCHANGED NonThr

\* shutdown: self.thread.join(); self.cleanup(); return
ShutdownThreadJoin ==
    /\ mpc = "sd_tjoin"
    /\ ThreadJoinReturns
    /\ mpc' = "sd_done"
    /\ UNCHANGED <<maxsize, tq, unfinished, wpc, wev, mev, nextEv, emitted, handledLog>>
    /\ UNCHANGED NonThr

\* _run: event = self.queue.get(True); if event: handle_event_blocking(event)
WorkerGet ==
    /\ wpc = "get"
    /\ tq # <<>>
    /\ wev' = Head(tq)
    /\ tq' = Tail(tq)
    /\ IF Truthy(Head(tq))
       THEN /\ handledLog' = Append(handledLog, Head(tq))
            /\ wpc' = "handle"
       ELSE /\ handledLog' = handledLog
            /\ wpc' = "task_done"
    /\ UNCHANGED <<maxsize, unfinished, mpc, mev, nextEv, emitted>>
    /\ UNCHANGED NonThr

\* handle_event_blocking returns, or raises and _run logs the exception
WorkerHandleReturn ==
    /\ wpc = "handle"
    /\ wev.kind \in {"plain", "raise"}
    /\ wpc' = "task_done"
    /\ UNCHANGED <<maxsize, tq, unfinished, wev, mpc, mev, nextEv, emitted, handledLog>>
    /\ UNCHANGED NonThr

\* handle_event_blocking -> action.handle_event -> SetPioAction.run ->
\* tgt_dev.set_output -> ow_write: the write starts, on the calling thread
WorkerBusBegin ==
    /\ wpc = "handle"
    /\ wev.kind = "setpio"
    /\ wpc' = "bus"
    /\ UNCHANGED <<maxsize, tq, unfinished, wev, mpc, mev, nextEv, emitted, handledLog>>
    /\ UNCHANGED NonThr

\* ... the write returns (or raises OwnetError, which run() logs)
WorkerBusEnd ==
    /\ wpc = "bus"
    /\ wpc' = "task_done"
    /\ UNCHANGED <<maxsize, tq, unfinished, wev, mpc, mev, nextEv, emitted, handledLog>>
    /\ UNCHANGED NonThr

\* _run: finally: self.queue.task_done(); if not event: break
WorkerTaskDone ==
    /\ wpc = "task_done"
    /\ unfinished' = unfinished - 1
    /\ wpc' = IF Truthy(wev) THEN "get" ELSE "exited"
    /\ UNCHANGED <<maxsize, tq, wev, mpc, mev, nextEv, emitted, handledLog>>
    /\ UNCHANGED NonThr

ThrNext ==
    \/ MainBusBegin
    \/ MainBusEnd
    \/ \E kind \in EventKinds : HandleEvent(kind)
    \/ PutReturn
    \/ Shutdown
    \/ ShutdownQueueJoin
    \/ ShutdownPut
    \/ ShutdownThreadJoin
    \/ WorkerGet
    \/ WorkerHandleReturn
    \/ WorkerBusBegin
    \/ WorkerBusEnd
    \/ WorkerTaskDone

ThrSpec == ThrInit /\ [][ThrNext]_vars

---------------------------------------------------------------------------
\* OwEventDispatcher: handlers are registered during setup, then events are
\* passed to handle_event while pause() and resume() are called.
PauseQueueLimit == 100   \* handle_event: len(self.pause_queue) >= 100
MaxHandlers == 2         \* handlers registered
MaxDispEvents == 102     \* events passed to the dispatcher

DispInit ==
    /\ SchedIdle
    /\ ThrIdle
    /\ DispIdle
    /\ EmitIdle
    /\ InvIdle
    /\ MasterIdle
    /\ DevIdle

\* handle_event: the test that drops the oldest buffered event
PauseQueueOverfull(q) == Len(q) > PauseQueueLimit
PauseQueueFull(q) == Len(q) >= PauseQueueLimit

\* _emit_event for each event of evs in turn: every handler's handle_event is
\* called with it (an exception it raises is logged)
EmitEvents(d, evs) == [h \in 1..Len(d) |-> d[h] \o evs]

\* OwEventDispatcher.add_handler
AddHandler ==
    /\ dNext = 1
    /\ Len(delivered) < MaxHandlers
    /\ delivered' = Append(delivered, <<>>)
    /\ UNCHANGED <<paused, pause_queue, dNext>>
    /\ UNCHANGED NonDisp

\* OwEventDispatcher.pause
Pause ==
    /\ paused' = TRUE
    /\ UNCHANGED <<pause_queue, delivered, dNext>>
    /\ UNCHANGED NonDisp

\* OwEventDispatcher.resume
Resume ==
    /\ paused' = FALSE
    /\ delivered' = EmitEvents(delivered, pause_queue)
    /\ pause_queue' = <<>>
    /\ UNCHANGED dNext
    /\ UNCHANGED NonDisp

\* OwEventDispatcher.handle_event(event)
DispHandleEvent ==
    /\ dNext <= MaxDispEvents
    /\ dNext' = dNext + 1
    /\ IF paused
       THEN /\ pause_queue' =
                  Append(IF PauseQueueFull(pause_queue) THEN Tail(pause_queue) ELSE pause_queue,
                         dNext)
            /\ delivered' = delivered
       ELSE /\ delivered' = EmitEvents(delivered, <<dNext>>)
            /\ pause_queue' = pause_queue
    /\ UNCHANGED paused
    /\ UNCHANGED NonDisp

DispNext ==
    \/ AddHandler
    \/ Pause
    \/ Resume
    \/ DispHandleEvent

DispSpec == DispInit /\ [][DispNext]_vars

---------------------------------------------------------------------------
\* OwEventDispatcher with handlers whose handle_event or shutdown may raise:
\* handlers are registered by load_handlers, events are emitted, and finally
\* OwMaster.shutdown is called.
MaxEmitHandlers == 3     \* handlers registered
MaxEmitEvents == 2       \* events emitted

\* what a handler's handle_event (he) and shutdown (sd) do when called
HandlerBehaviours == [he : {"ok", "raise"}, sd : {"ok", "raise"}]

EmitInit ==
    /\ SchedIdle
    /\ ThrIdle
    /\ DispIdle
    /\ EmitIdle
    /\ InvIdle
    /\ MasterIdle
    /\ DevIdle

\* _emit_event: for h in self.handlers: try: h.handle_event(event) except: log.
\* The handlers called, in call order, from handler h on.
RECURSIVE EmitCallsUnguarded(_, _)
EmitCallsUnguarded(hs, h) ==
    IF h > Len(hs) THEN <<>>
    ELSE IF hs[h].he = "raise" THEN <<h>>
    ELSE <<h>> \o EmitCallsUnguarded(hs, h + 1)

RECURSIVE EmitCalls(_, _)
EmitCalls(hs, h) ==
    IF h > Len(hs) THEN <<>> ELSE <<h>> \o EmitCalls(hs, h + 1)

\* OwEventDispatcher.shutdown: for h in self.handlers: h.shutdown(), with no
\* try around the call: an exception leaves the loop
RECURSIVE ShutdownCalls(_, _)
ShutdownCalls(hs, h) ==
    IF h > Len(hs) THEN <<>>
    ELSE IF hs[h].sd = "raise" THEN <<h>>
    ELSE <<h>> \o ShutdownCalls(hs, h + 1)

\* load_handlers: self.event_dispatcher.add_handler(h)
RegisterHandler(b) ==
    /\ epc = "running"
    /\ eNext = 1
    /\ Len(handlers) < MaxEmitHandlers
    /\ handlers' = Append(handlers, b)
    /\ UNCHANGED <<lastEmit, sdCalls, epc, eNext>>
    /\ UNCHANGED NonEmit

\* OwEventDispatcher.handle_event(event) while not paused: self._emit_event(event)
EmitEvent ==
    /\ epc = "running"
    /\ ~paused
    /\ eNext <= MaxEmitEvents
    /\ lastEmit' = [event |-> eNext, calls |-> EmitCalls(handlers, 1)]
    /\ eNext' = eNext + 1
    /\ UNCHANGED <<handlers, sdCalls, epc>>
    /\ UNCHANGED NonEmit

\* OwMaster.shutdown: try: self.event_dispatcher.shutdown() except: log
MasterShutdown ==
    /\ epc = "running"
    /\ sdCalls' = ShutdownCalls(handlers, 1)
    /\ epc' = "sd_done"
    /\ UNCHANGED <<handlers, lastEmit, eNext>>
    /\ UNCHANGED NonEmit

EmitNext ==
    \/ \E b \in HandlerBehaviours : RegisterHandler(b)
    \/ EmitEvent
    \/ MasterShutdown

EmitSpec == EmitInit /\ [][EmitNext]_vars

---------------------------------------------------------------------------
\* DeviceInventory and DeviceFactory, and the part of OwMaster._scan that
\* works on them: the inventory is built from the initial configuration, then
\* scans, find calls and configuration reloads follow in any order.
MaxScanIds == 2          \* IDs returned by one enumeration of the bus

\* DeviceFactory.device_types: the family codes with a registered class
RegisteredFamilies == {"10"}

\* DeviceFactory.create: family = dev_id[0:2]
Family(dev_id) == dev_id[1]

\* the device classes whose simultaneous attribute is "temperature"
Simultaneous(dev_id) == Family(dev_id) = "10"

\* the configuration documents the program is started or reloaded with
Configs ==
    { EmptyConfig,
      [EmptyConfig EXCEPT ![<<"10", "A">>] = "a"],
      [EmptyConfig EXCEPT ![<<"10", "B">>] = "none"],
      [id \in DevIds |-> IF Family(id) = "10" THEN "a" ELSE "none"] }

\* the possible iteration orders of a dict or set of IDs; where an ID of an
\* unregistered family comes in the order changes nothing, so it comes last
HashOrders ==
    {f \in [1..Cardinality(DevIds) -> DevIds] :
        /\ \A i, j \in DOMAIN f : i # j => f[i] # f[j]
        /\ \A i, j \in DOMAIN f :
              (i < j /\ Family(f[i]) \notin RegisteredFamilies)
                  => Family(f[j]) \notin RegisteredFamilies}

\* the enumerations a directory listing can return (IDs may repeat)
RECURSIVE IdSeqs(_)
IdSeqs(n) ==
    IF n = 0 THEN {<<>>}
    ELSE IdSeqs(n - 1) \cup {Append(q, id) : q \in {r \in IdSeqs(n - 1) : Len(r) = n - 1}, id \in DevIds}

\* OwDevice.config: the alias is devices:<id>:alias or devices:aliases:<id>
AliasIn(config, dev_id) == IF config[dev_id] \in Aliases THEN config[dev_id] ELSE NoAlias

\* DeviceInventory._add_alias: a duplicate is logged, the last one stays
AddAlias(als, alias, dev_id) == [als EXCEPT ![alias] = dev_id]

\* the inventory, as the operators below pass it on
Inventory == [devices |-> devices, aliases |-> aliases,
              createCount |-> createCount, nextInst |-> nextInst]

\* the configuration a newly created device is configured with
CreateConfig(root_config) == factory_config

\* DeviceInventory._create_device -> DeviceFactory.create(dev_id): the device
\* is constructed and configured with the factory's configuration, its alias
\* registered; an unregistered family is stored as False
CreateDevice(inv, dev_id, root_config) ==
    LET supported == Family(dev_id) \in RegisteredFamilies
        alias == AliasIn(CreateConfig(root_config), dev_id)
        dev == [kind |-> "dev", inst |-> inv.nextInst, alias |-> alias, lost |-> FALSE]
    IN  [devices |-> [inv.devices EXCEPT ![dev_id] = IF supported THEN dev ELSE Unsupported],
         aliases |-> IF supported /\ alias # NoAlias
                     THEN AddAlias(inv.aliases, alias, dev_id) ELSE inv.aliases,
         createCount |-> [inv.createCount EXCEPT ![dev_id] = @ + 1],
         nextInst |-> IF supported THEN inv.nextInst + 1 ELSE inv.nextInst]

\* what `dev = self._create_device(dev_id)` yields in find: the method ends
\* without a return statement, so None
CreateDeviceReturn(devs, dev_id) == NoId

\* DeviceInventory.find(dev_id, create): whether it calls _create_device
FindCreatesAlways(devs, dev_id, create) == create /\ devs[dev_id].kind # "dev"
FindCreates(devs, dev_id, create) == create /\ devs[dev_id].kind = "absent"

\* DeviceInventory.find: the value returned (NoId for None)
FindResult(devs, dev_id, create) ==
    IF devs[dev_id].kind = "dev" THEN dev_id
    ELSE IF FindCreates(devs, dev_id, create) THEN CreateDeviceReturn(devs, dev_id)
    ELSE NoId

\* DeviceInventory.find: the inventory it leaves
FindInventory(inv, dev_id, create) ==
    IF FindCreates(inv.devices, dev_id, create)
    THEN CreateDevice(inv, dev_id, factory_config) ELSE inv

\* _scan: for dev_id in ids: skip duplicates, find or create, clear lost
RECURSIVE ScanIds(_, _, _, _, _)
ScanIds(inv, ids, k, unique_devices, device_list) ==
    IF k > Len(ids) THEN [inv |-> inv, device_list |-> device_list]
    ELSE LET dev_id == ids[k]
             dev == FindResult(inv.devices, dev_id, TRUE)
             found == FindInventory(inv, dev_id, TRUE)
         IN  IF dev_id \in unique_devices
             THEN ScanIds(inv, ids, k + 1, unique_devices, device_list)
             ELSE IF dev = NoId
             THEN ScanIds(found, ids, k + 1, unique_devices \cup {dev_id}, device_list)
             ELSE ScanIds([found EXCEPT !.devices[dev_id].lost = FALSE], ids, k + 1,
                          unique_devices \cup {dev_id}, Append(device_list, dev_id))

\* DeviceInventory.list(skip_list): the devices (not False) not in skip_list
InventoryList(devs, skip_list) ==
    {id \in DevIds : devs[id].kind = "dev" /\ \A k \in 1..Len(skip_list) : skip_list[k] # id}

\* _scan, full scan: every device of missing gets lost = True
MarkLost(devs, missing) ==
    [id \in DevIds |-> IF id \in missing THEN [devs[id] EXCEPT !.lost = TRUE] ELSE devs[id]]

\* _scan: the tasks entered for device_list: on_alarm on the high-priority
\* queue (1) or on_seen on the low-priority queue (2)
ScanTasks(alarm_mode, device_list) ==
    [k \in 1..Len(device_list) |->
        [queue |-> IF alarm_mode THEN 1 ELSE 2,
         task |-> IF alarm_mode THEN "on_alarm" ELSE "on_seen",
         dev |-> device_list[k]]]

\* refresh_config: for dev_id in configured_ids: create what is not yet known
RECURSIVE RefreshCreate(_, _, _)
RefreshCreate(inv, root_config, k) ==
    IF k > Len(hashOrder) THEN inv
    ELSE LET dev_id == hashOrder[k]
         IN  IF root_config[dev_id] # "-" /\ inv.devices[dev_id].kind = "absent"
             THEN RefreshCreate(CreateDevice(inv, dev_id, root_config), root_config, k + 1)
             ELSE RefreshCreate(inv, root_config, k + 1)

\* refresh_config: for dev_id in self.devices: configure the devices that were
\* not just created and register their alias
RECURSIVE RefreshConfigure(_, _, _, _)
RefreshConfigure(inv, root_config, just_created, k) ==
    IF k > Len(hashOrder) THEN inv
    ELSE LET dev_id == hashOrder[k]
             alias == AliasIn(root_config, dev_id)
         IN  IF inv.devices[dev_id].kind = "dev" /\ dev_id \notin just_created
             THEN RefreshConfigure(
                      [inv EXCEPT !.devices[dev_id].alias = alias,
                                  !.aliases = IF alias # NoAlias
                                              THEN AddAlias(inv.aliases, alias, dev_id)
                                              ELSE inv.aliases],
                      root_config, just_created, k + 1)
             ELSE RefreshConfigure(inv, root_config, just_created, k + 1)

\* DeviceInventory.refresh_config(root_config)
RefreshConfig(inv, root_config) ==
    LET just_created == {id \in DevIds : root_config[id] # "-" /\ inv.devices[id].kind = "absent"}
        reset == [inv EXCEPT !.aliases = [a \in Aliases |-> NoId]]
    IN  RefreshConfigure(RefreshCreate(reset, root_config, 1), root_config, just_created, 1)

\* OwMaster._setup: DeviceFactory(..., config); DeviceInventory(factory, config),
\* whose __init__ calls refresh_config(config)
InvInit ==
    /\ SchedIdle
    /\ ThrIdle
    /\ DispIdle
    /\ EmitIdle
    /\ MasterIdle
    /\ DevIdle
    /\ factory_config \in Configs
    /\ hashOrder \in HashOrders
    /\ LET inv == RefreshConfig([devices |-> [id \in DevIds |-> Absent],
                                 aliases |-> [a \in Aliases |-> NoId],
                                 createCount |-> [id \in DevIds |-> 0],
                                 nextInst |-> 1], factory_config)
       IN  /\ devices = inv.devices
           /\ aliases = inv.aliases
           /\ createCount = inv.createCount
           /\ nextInst = inv.nextInst
           /\ lastRefresh = [config |-> factory_config, n |-> 1,
                             devices |-> inv.devices, aliases |-> inv.aliases]
    /\ lastOp = "refresh"
    /\ lastFind = NoFind
    /\ lastScan = NoScan

\* OwMaster.refresh_config(config) -> DeviceInventory.refresh_config(config)
InvRefreshConfig(root_config) ==
    LET inv == RefreshConfig(Inventory, root_config)
        again == lastOp = "refresh" /\ lastRefresh.config = root_config
    IN  /\ devices' = inv.devices
        /\ aliases' = inv.aliases
        /\ createCount' = inv.createCount
        /\ nextInst' = inv.nextInst
        /\ lastRefresh' = IF again
                          THEN [lastRefresh EXCEPT !.n = IF @ < 3 THEN @ + 1 ELSE @]
                          ELSE [config |-> root_config, n |-> 1,
                                devices |-> inv.devices, aliases |-> inv.aliases]
        /\ lastOp' = "refresh"
        /\ lastFind' = NoFind
        /\ lastScan' = NoScan
        /\ UNCHANGED <<factory_config, hashOrder>>
        /\ UNCHANGED NonInv

\* DeviceInventory.find(dev_id, create) called by a handler or a scan
InvFind(dev_id, create) ==
    LET inv == FindInventory(Inventory, dev_id, create)
    IN  /\ devices' = inv.devices
        /\ aliases' = inv.aliases
        /\ createCount' = inv.createCount
        /\ nextInst' = inv.nextInst
        /\ lastFind' = [id |-> dev_id, create |-> create,
                        before |-> devices[dev_id].kind,
                        result |-> FindResult(devices, dev_id, create)]
        /\ lastOp' = "find"
        /\ lastScan' = NoScan
        /\ lastRefresh' = NoRefresh
        /\ UNCHANGED <<factory_config, hashOrder>>
        /\ UNCHANGED NonInv

\* OwMaster._scan(alarm_mode) whose directory listing returns ids
InvScan(alarm_mode, ids) ==
    LET scanned == ScanIds(Inventory, ids, 1, {}, <<>>)
        device_list == scanned.device_list
        missing == InventoryList(scanned.inv.devices, device_list)
    IN  /\ devices' = IF alarm_mode THEN scanned.inv.devices
                      ELSE MarkLost(scanned.inv.devices, missing)
        /\ aliases' = scanned.inv.aliases
        /\ createCount' = scanned.inv.createCount
        /\ nextInst' = scanned.inv.nextInst
        /\ lastScan' = [alarm_mode |-> alarm_mode, ids |-> ids, ok |-> TRUE,
                        tasks |-> ScanTasks(alarm_mode, device_list),
                        simultaneous |-> IF alarm_mode THEN <<>>
                                         ELSE SelectSeq(device_list, Simultaneous),
                        lostBefore |-> {id \in DevIds : devices[id].lost}]
        /\ lastOp' = "scan"
        /\ lastFind' = NoFind
        /\ lastRefresh' = NoRefresh
        /\ UNCHANGED <<factory_config, hashOrder>>
        /\ UNCHANGED NonInv

\* OwMaster._scan(alarm_mode) whose directory listing raises OwnetError: the
\* error is logged and _scan returns
InvScanFailed(alarm_mode) ==
    /\ lastScan' = [NoScan EXCEPT !.alarm_mode = alarm_mode,
                                  !.lostBefore = {id \in DevIds : devices[id].lost}]
    /\ lastOp' = "scan"
    /\ lastFind' = NoFind
    /\ lastRefresh' = NoRefresh
    /\ UNCHANGED <<devices, aliases, factory_config, hashOrder, createCount, nextInst>>
    /\ UNCHANGED NonInv

InvNext ==
    \/ \E root_config \in Configs : InvRefreshConfig(root_config)
    \/ \E dev_id \in DevIds, create \in BOOLEAN : InvFind(dev_id, create)
    \/ \E alarm_mode \in BOOLEAN, ids \in IdSeqs(MaxScanIds) : InvScan(alarm_mode, ids)
    \/ \E alarm_mode \in BOOLEAN : InvScanFailed(alarm_mode)

InvSpec == InvInit /\ [][InvNext]_vars

---------------------------------------------------------------------------
\* OwMaster: main(), _mainloop(), scan() and the simultaneous temperature
\* conversion, run on the scheduler above. Times are in ticks of half a
\* second; a task takes no time, the clock advances when run() sleeps.
Second == 2             \* ticks per second
StartClock == 1         \* time.time() when main() is called
MaxClock == 5           \* a bus with a sensor: no scan task starts after this time
MaxClockEmpty == 9      \* an empty bus: no scan task starts after this time
MaxClockDown == 160     \* owserver unreachable: no scan task starts after this time

SCAN_FULL == 0
SCAN_ALARM == 1

\* the two queues OwMaster._setup creates; priority order is creation order
High == 1               \* self.queue_high_prio
Low == 2                \* self.queue_low_prio

\* the callables OwMaster enters into its queues
ActScan == 5            \* self.scan, argument [scan_mode]
ActSimRead == 6         \* self._simultaneous_temperature_read, argument [devices, convert_start_ts]
ActReadTemp == 7        \* dev.read_temperature, argument [convert_start_ts]
ActOnSeen == 8          \* dev.on_seen, argument [timestamp]
ActOnAlarm == 9         \* dev.on_alarm, argument [timestamp]
MasterActions == {ActScan, ActSimRead, ActReadTemp, ActOnSeen, ActOnAlarm}

ReadDelayLong == 3 * Second
ReadDelay == 1 * Second \* queue_low_prio(1.0, self._simultaneous_temperature_read, ...)
BackoffCap == 20        \* min((self.scan_conn_errs * 2) + 1, 20), in seconds
DefaultScanInterval == 30 * Second      \* owmaster:scan_interval, 30
DefaultAlarmScanInterval == 1 * Second  \* owmaster:alarm_scan_interval, 1.0

\* owmaster:scan_interval of 0.5 s and of 2 s beside the default alarm interval
ScanIntervals == { <<1, DefaultAlarmScanInterval>>, <<2 * Second, DefaultAlarmScanInterval>> }
DefaultScanIntervals == <<DefaultScanInterval, DefaultAlarmScanInterval>>

\* what a bus operation does: it returns, or raises one of the three errors;
\* while owserver is unreachable every call raises ConnError
Errors == {"ConnError", "OwnetError", "ProtocolError"}
IoResults == IF link = "down" THEN {"ConnError"} ELSE {"ok"} \cup Errors

\* the except clauses of the while loop in _mainloop (KeyboardInterrupt apart)
Caught == {"OwnetError", "ProtocolError", "ConnError"}

\* the identity order of OwMaster's callables: two of the possible orders
MasterAddrOrders ==
    { [a \in Actions \cup MasterActions |-> a],
      [a \in Actions \cup MasterActions |-> IF a \in MasterActions THEN 14 - a ELSE a] }

\* Queue.enter(delay, action, argument): at_time = self.timefunc() + delay.
\* The events of OwMaster carry no entry mark.
Enter(qs, q, delay, action, argument) ==
    Enterabs(qs, q, clock + delay, action, argument, 0)

\* the tasks in the queues: which callable, on which queue
TasksIn(qs) == UNION { { <<qs[q][k].action, q>> : k \in 1..Len(qs[q]) } : q \in 1..Len(qs) }

\* self.scan_queue = [self.queue_low_prio, self.queue_high_prio], indexed by scan_mode
ScanQueueLow(scan_mode) == Low
ScanQueue(scan_mode) == IF scan_mode = SCAN_FULL THEN Low ELSE High

\* backoff = min((self.scan_conn_errs * 2) + 1, 20)
BackoffUncapped(errs) == (errs * 2) + 1
Backoff(errs) == Min((errs * 2) + 1, BackoffCap)

\* if self.simultaneous_temperature_pending: raise Exception(...)
BatchPendingNever(pending) == FALSE
BatchPending(pending) == pending

\* simultaneous_temperature(devices): raises when a batch is pending, else
\* writes simultaneous/temperature (which may raise), sets the flag and enters
\* the read task 1.0 s later
SimultaneousTemperature(qs, write) ==
    IF BatchPending(simultaneous_temperature_pending)
    THEN [queues |-> qs, pending |-> simultaneous_temperature_pending,
          raised |-> "Exception", wrote |-> FALSE]
    ELSE IF write # "ok"
    THEN [queues |-> qs, pending |-> simultaneous_temperature_pending,
          raised |-> write, wrote |-> FALSE]
    ELSE [queues |-> Enter(qs, Low, ReadDelay, ActSimRead, <<clock>>), pending |-> TRUE,
          raised |-> "none", wrote |-> TRUE]

\* _scan(alarm_mode) on a bus with one DS1820: dir is what ow_dir or
\* ow_dir_alarm does, listed whether device_list holds the device
ScanDevices(qs, alarm_mode, dir, listed, write) ==
    LET timestamp == clock
        nothing == [queues |-> qs, pending |-> simultaneous_temperature_pending,
                    raised |-> "none", wrote |-> FALSE]
    IN  IF dir = "OwnetError" THEN nothing
        ELSE IF dir # "ok" THEN [nothing EXCEPT !.raised = dir]
        ELSE IF ~listed THEN nothing
        ELSE IF alarm_mode
        THEN [nothing EXCEPT !.queues = Enter(qs, High, 0, ActOnAlarm, <<timestamp>>)]
        ELSE SimultaneousTemperature(Enter(qs, Low, 0, ActOnSeen, <<timestamp>>), write)

\* scan(scan_mode): _scan, the counter reset, the statistics read of a full
\* scan, the ConnError handler and the finally clause. raised is the exception
\* that leaves scan(), stats what owstats.on_seen does.
Scan(qs, scan_mode, dir, listed, write, stats) ==
    LET inner == ScanDevices(qs, scan_mode = SCAN_ALARM, dir, listed, write)
        scan_ok == inner.raised = "none"
        errs_try == IF scan_ok THEN 0 ELSE scan_conn_errs
        raised == IF ~scan_ok THEN inner.raised
                  ELSE IF scan_mode # SCAN_ALARM /\ stats # "ok" THEN stats
                  ELSE "none"
        conn_error == raised = "ConnError"
        errs == IF conn_error THEN errs_try + 1 ELSE errs_try
        backoff == IF conn_error THEN Backoff(errs) ELSE 0
    IN  [queues |-> Enter(inner.queues, ScanQueue(scan_mode),
                          scan_interval[scan_mode + 1] + Second * backoff,
                          ActScan, <<scan_mode>>),
         pending |-> inner.pending,
         wrote |-> inner.wrote,
         scan_conn_errs |-> errs,
         scan_ok |-> scan_ok,
         conn_error |-> conn_error,
         raised |-> IF conn_error THEN "none" ELSE raised]

\* what a call of scan() leaves in OwMaster's fields
ScanEffects(scan_mode, r) ==
    /\ scan_conn_errs' = r.scan_conn_errs
    /\ simultaneous_temperature_pending' = r.pending
    /\ lastScanRun' = [scan_mode |-> scan_mode, at |-> clock,
                       errs_before |-> scan_conn_errs, scan_ok |-> r.scan_ok,
                       conn_error |-> r.conn_error, raised |-> r.raised,
                       errs_after |-> r.scan_conn_errs]
    /\ lastBatch' = IF r.wrote
                    THEN [written |-> TRUE, pending_before |-> simultaneous_temperature_pending]
                    ELSE lastBatch

\* whether the enumeration yields the sensor: not on an empty bus
Listings == IF bus = 0 THEN {FALSE} ELSE BOOLEAN

\* OwMaster.__init__ and _setup: two queues with the default dispatch limits,
\* scan_conn_errs = 0; _mainloop has set simultaneous_temperature_pending
MasterInit ==
    /\ ThrIdle
    /\ DispIdle
    /\ EmitIdle
    /\ InvIdle
    /\ DevIdle
    /\ clock = StartClock
    /\ addr \in MasterAddrOrders
    /\ queues = << <<>>, <<>> >>
    /\ qconf = << [min_dispatch |-> DefaultMinDispatch, max_dispatch |-> DefaultMaxDispatch],
                  [min_dispatch |-> DefaultMinDispatch, max_dispatch |-> DefaultMaxDispatch] >>
    /\ pc = "idle"
    /\ num_queues = 0
    /\ nextSeq = 1
    /\ RunNotStarted
    /\ \/ bus = 1 /\ link = "flaky" /\ horizon = MaxClock /\ scan_interval \in ScanIntervals
       \/ bus = 0 /\ link = "flaky" /\ horizon = MaxClockEmpty
             /\ scan_interval \in ScanIntervals
       \/ bus = 0 /\ link = "down" /\ horizon = MaxClockDown
             /\ scan_interval \in ScanIntervals \cup {DefaultScanIntervals}
    /\ scan_conn_errs = 0
    /\ simultaneous_temperature_pending = FALSE
    /\ mlpc = "scan_full"
    /\ exc = "none"
    /\ lastScanRun = NoScanRun
    /\ lastBatch = NoBatch
    /\ lastRead = NoRead
    /\ owed = {}

\* _mainloop: self.scan(SCAN_FULL); self.scan(SCAN_ALARM), outside the try of
\* the while loop: an exception that leaves scan() leaves main()
InitialScan ==
    /\ mlpc \in {"scan_full", "scan_alarm"}
    /\ \E dir \in IoResults, listed \in Listings, write \in IoResults, stats \in IoResults :
          LET scan_mode == IF mlpc = "scan_full" THEN SCAN_FULL ELSE SCAN_ALARM
              r == Scan(queues, scan_mode, dir, listed, write, stats)
          IN  /\ queues' = r.queues
              /\ ScanEffects(scan_mode, r)
              /\ exc' = r.raised
              /\ mlpc' = IF r.raised # "none" THEN "crashed"
                         ELSE IF mlpc = "scan_full" THEN "scan_alarm" ELSE "run"
    /\ UNCHANGED <<clock, addr, qconf, pc, num_queues, now, next_at, qi, dispatched,
                   nextSeq, execLog, passInfo, lastDispatch, dueAtCall, lastPop>>
    /\ UNCHANGED <<bus, link, horizon, scan_interval, lastRead, owed>>
    /\ UNCHANGED NonMaster

\* _mainloop: self.scheduler.run(), first or again after a caught exception
MasterRunStart ==
    /\ mlpc = "run"
    /\ RunStart

\* Queue.dispatch: event = pop(q); action(*argument) raises: the exception
\* leaves dispatch and run, the event stays removed
Raise(action, after, kind) ==
    /\ pc = "dispatch"
    /\ DispatchReturnValue(queues[qi], qconf[qi], now, next_at, dispatched, clock) = -1
    /\ queues[qi][1].action = action
    /\ LET event == queues[qi][1]
       IN  /\ queues' = after
           /\ lastPop' = [queue |-> qi, event |-> event, rest |-> Popped[qi]]
           /\ execLog' = IF \E k \in 1..Len(execLog) : execLog[k].event.seq = event.seq
                         THEN execLog
                         ELSE Append(execLog, [queue |-> qi, event |-> event])
           /\ owed' = TasksIn(after)
    /\ pc' = "raised"
    /\ exc' = kind
    /\ UNCHANGED <<clock, addr, qconf, num_queues, now, next_at, qi, dispatched, nextSeq,
                   passInfo, lastDispatch, dueAtCall>>

\* a task of OwMaster that returns
Return(action, after) ==
    /\ Execute(action, after, 0)
    /\ owed' = owed \ {<<action, qi>>}
    /\ UNCHANGED exc

\* the task self.scan(scan_mode)
ExecScan ==
    /\ mlpc = "run"
    /\ pc = "dispatch"
    /\ queues[qi] # <<>>
    /\ queues[qi][1].action = ActScan
    /\ clock <= horizon
    /\ \E dir \in IoResults, listed \in Listings, write \in IoResults, stats \in IoResults :
          LET scan_mode == queues[qi][1].argument[1]
              r == Scan(Popped, scan_mode, dir, listed, write, stats)
          IN  /\ IF r.raised = "none"
                 THEN Return(ActScan, r.queues)
                 ELSE Raise(ActScan, r.queues, r.raised)
              /\ ScanEffects(scan_mode, r)
    /\ UNCHANGED <<bus, link, horizon, scan_interval, mlpc, lastRead>>
    /\ UNCHANGED NonMaster

\* the task self._simultaneous_temperature_read(devices, convert_start_ts)
ExecSimRead ==
    /\ mlpc = "run"
    /\ pc = "dispatch"
    /\ queues[qi] # <<>>
    /\ Return(ActSimRead, Enter(Popped, Low, 0, ActReadTemp, queues[qi][1].argument))
    /\ simultaneous_temperature_pending' = FALSE
    /\ UNCHANGED <<bus, link, horizon, scan_interval, scan_conn_errs, mlpc, lastScanRun, lastBatch, lastRead>>
    /\ UNCHANGED NonMaster

\* the task dev.read_temperature(convert_start_ts): ow_read_str may raise
ExecReadTemp ==
    /\ mlpc = "run"
    /\ pc = "dispatch"
    /\ queues[qi] # <<>>
    /\ \E res \in IoResults :
          IF res = "ok" THEN Return(ActReadTemp, Popped) ELSE Raise(ActReadTemp, Popped, res)
    /\ lastRead' = [called |-> TRUE, elapsed |-> clock - queues[qi][1].argument[1]]
    /\ UNCHANGED <<bus, link, horizon, scan_interval, scan_conn_errs, simultaneous_temperature_pending, mlpc,
                   lastScanRun, lastBatch>>
    /\ UNCHANGED NonMaster

\* the task dev.on_seen(timestamp) of a DS1820: nothing, the master reads it
ExecOnSeen ==
    /\ mlpc = "run"
    /\ Return(ActOnSeen, Popped)
    /\ UNCHANGED <<bus, link, horizon, scan_interval, scan_conn_errs, simultaneous_temperature_pending, mlpc,
                   lastScanRun, lastBatch, lastRead>>
    /\ UNCHANGED NonMaster

\* the task dev.on_alarm(timestamp) of a DS1820: two ow_write calls
ExecOnAlarm ==
    /\ mlpc = "run"
    /\ pc = "dispatch"
    /\ queues[qi] # <<>>
    /\ \E res \in IoResults :
          IF res = "ok" THEN Return(ActOnAlarm, Popped) ELSE Raise(ActOnAlarm, Popped, res)
    /\ UNCHANGED <<bus, link, horizon, scan_interval, scan_conn_errs, simultaneous_temperature_pending, mlpc,
                   lastScanRun, lastBatch, lastRead>>
    /\ UNCHANGED NonMaster

\* _mainloop: except OwnetError / ProtocolError / ConnError: log, and the
\* while loop calls run() again
MainloopCatch ==
    /\ mlpc = "run"
    /\ pc = "raised"
    /\ exc \in Caught
    /\ pc' = "idle"
    /\ exc' = "none"
    /\ UNCHANGED <<clock, addr, queues, qconf, num_queues, now, next_at, qi, dispatched,
                   nextSeq, execLog, passInfo, lastDispatch, dueAtCall, lastPop>>
    /\ UNCHANGED <<bus, link, horizon, scan_interval, scan_conn_errs, simultaneous_temperature_pending, mlpc,
                   lastScanRun, lastBatch, lastRead, owed>>
    /\ UNCHANGED NonMaster

\* any other exception leaves _mainloop; main(): except: log "Unhandled
\* exception, crashing", and main returns
MainCrash ==
    /\ mlpc = "run"
    /\ pc = "raised"
    /\ exc \notin Caught
    /\ mlpc' = "crashed"
    /\ UNCHANGED schedVars
    /\ UNCHANGED <<bus, link, horizon, scan_interval, scan_conn_errs, simultaneous_temperature_pending, exc,
                   lastScanRun, lastBatch, lastRead, owed>>
    /\ UNCHANGED NonMaster

MasterNext ==
    \/ InitialScan
    \/ MasterRunStart
    \/ PassBegin
    \/ DispatchReturn
    \/ ExecScan
    \/ ExecSimRead
    \/ ExecReadTemp
    \/ ExecOnSeen
    \/ ExecOnAlarm
    \/ EndPass
    \/ MainloopCatch
    \/ MainCrash

MasterSpec == MasterInit /\ [][MasterNext]_vars

\* the main thread is the only thread: it is never stopped for ever
MasterFairSpec == MasterInit /\ [][MasterNext]_vars /\ WF_vars(MasterNext)

---------------------------------------------------------------------------
\* OwPIODevice (device/pio.py) with its subclasses DS2406 (channels A, B) and
\* DS2408 (channels 0..7), and the chip: its set_alarm register, activity
\* latches and pin levels. Only the pins of the first two channels move.
MaxPins == 1            \* the pins that change level

PIO_MODE_OUTPUT == 1
PIO_MODE_INPUT == 2
PIO_MODE_INPUT_MOMENTARY == 6
PIO_MODE_INPUT_TOGGLE == 10
PIO_MODE_ACTIVE_HIGH == 16

\* the values parse_pio_mode returns
PioModes == { PIO_MODE_OUTPUT, PIO_MODE_INPUT_MOMENTARY, PIO_MODE_INPUT_TOGGLE,
              PIO_MODE_OUTPUT + PIO_MODE_ACTIVE_HIGH,
              PIO_MODE_INPUT_MOMENTARY + PIO_MODE_ACTIVE_HIGH,
              PIO_MODE_INPUT_TOGGLE + PIO_MODE_ACTIVE_HIGH }

Bit(value, k) == (value \div (2 ^ k)) % 2

\* test_bits(value, mask): (value & mask) == mask
test_bits(value, mask) == \A k \in 0..7 : Bit(mask, k) = 1 => Bit(value, k) = 1

is_output(mode) == test_bits(mode, PIO_MODE_OUTPUT)
is_input(mode) == test_bits(mode, PIO_MODE_INPUT)
is_input_momentary(mode) == test_bits(mode, PIO_MODE_INPUT_MOMENTARY)
is_input_toggle(mode) == test_bits(mode, PIO_MODE_INPUT_TOGGLE)
is_active_high(mode) == test_bits(mode, PIO_MODE_ACTIVE_HIGH)

\* OwPIOChannel.is_set(value): (value & (1 << self.num)) != 0
is_set(num, value) == Bit(value, num) # 0

\* num_channels and the channel names (_ch_translate)
NumChannels(type) == IF type = "DS2406" THEN 2 ELSE 8
ChName(type, num) ==
    IF type = "DS2406" THEN <<"A", "B">>[num + 1]
    ELSE <<"0", "1", "2", "3", "4", "5", "6", "7">>[num + 1]

\* _calculate_alarm_setting with the latch as alarm source: DS2406 gives
\* "%d%d%d" % (src_channel, 1, 1), DS2408 "1" followed by one "3" per channel
RECURSIVE Threes(_)
Threes(n) == IF n = 0 THEN "" ELSE "3" \o Threes(n - 1)
CalculateAlarmSetting(type, chs) ==
    IF type = "DS2406"
    THEN (IF Len(chs) = 2 THEN "3" ELSE "1") \o "11"
    ELSE "1" \o Threes(Len(chs))

\* what set_alarm reads after the chip lost power
PowerOnAlarm(type) == IF type = "DS2406" THEN "0" ELSE "000000000"

\* check_alarm_config: if alarm != self.wanted_alarm
ReconfigureNever(alarm) == FALSE
Reconfigure(alarm) == alarm # wanted_alarm

\* the bus operations of OwPIODevice.check_alarm_config when none of them fails
CheckOps ==
    <<"read set_alarm">>
    \o (IF Reconfigure(chip_set_alarm) THEN <<"write set_alarm", "write latch.BYTE">> ELSE <<>>)
    \o (IF Reconfigure(chip_set_alarm) \/ ~inital_setup_done
        THEN <<"read sensed.BYTE">> ELSE <<>>)

\* DS2408.check_alarm_config: the por property is read, and reset when set,
\* before the inherited check; DS2406 inherits check_alarm_config as it is
PorOps ==
    IF pio_type # "DS2408" THEN <<>>
    ELSE <<"read por">>
         \o (IF chip_por # 0
             THEN <<"write por", "write out_of_testmode", "write latch.BYTE">> ELSE <<>>)

\* check_alarm_config() returns True
NotReady ==
    \/ Reconfigure(chip_set_alarm)
    \/ pio_type = "DS2408" /\ chip_por # 0

\* the bus operations of on_alarm after check_alarm_config returned False
AlarmOpsNoClear == <<"read latch.BYTE", "read sensed.BYTE">>
AlarmOps == <<"read latch.BYTE", "read sensed.BYTE", "write latch.BYTE">>

\* the operations performed when operation number fail raises (0: none does)
Performed(ops, fail) == IF fail = 0 THEN ops ELSE SubSeq(ops, 1, fail - 1)
Failed(ops, fail) == IF fail = 0 THEN "none" ELSE ops[fail]

OwPIOEvent(channel, value, is_reset) ==
    [channel |-> channel, value |-> value, is_reset |-> is_reset]

\* _emit_init_state(sensed): events for toggle inputs and outputs
RECURSIVE EmitInitState(_, _)
EmitInitState(sensed, n) ==
    IF n = 0 THEN <<>>
    ELSE LET mode == channels[n]
             ch_sensed == is_set(n - 1, sensed)
             rest == EmitInitState(sensed, n - 1)
         IN  IF ~is_input_toggle(mode) /\ ~is_output(mode) THEN rest
             ELSE Append(rest, OwPIOEvent(ChName(pio_type, n - 1),
                                          IF ch_sensed = is_active_high(mode)
                                          THEN "ON" ELSE "OFF",
                                          TRUE))

\* _handle_alarm, output or toggle input: if ch_has_changed != False
ToggleEventAlways(mode, ch_sensed, last, num) == TRUE
ToggleEvent(mode, ch_sensed, last, num) ==
    last = -1 \/ is_set(num, last) # ch_sensed

\* _handle_alarm, momentary input:
\* if ch_sensed == ch_active_level or ch_last_sensed != ch_active_level
MomentaryEventAlways(mode, ch_sensed, last, num) == TRUE
MomentaryEvent(mode, ch_sensed, last, num) ==
    \/ ch_sensed = is_active_high(mode)
    \/ last = -1
    \/ is_set(num, last) # is_active_high(mode)

\* _handle_alarm(timestamp, latch, sensed, last_sensed): the events emitted
\* for the first n channels
RECURSIVE HandleAlarm(_, _, _, _)
HandleAlarm(latch, sensed, last, n) ==
    IF n = 0 THEN <<>>
    ELSE LET mode == channels[n]
             num == n - 1
             ch_sensed == is_set(num, sensed)
             rest == HandleAlarm(latch, sensed, last, n - 1)
             event_type ==
                 IF is_output(mode) \/ (is_input(mode) /\ is_input_toggle(mode))
                 THEN IF ToggleEvent(mode, ch_sensed, last, num)
                      THEN (IF ch_sensed = is_active_high(mode) THEN "ON" ELSE "OFF")
                      ELSE "none"
                 ELSE IF MomentaryEvent(mode, ch_sensed, last, num) THEN "TRIGGED"
                 ELSE "none"
         IN  IF ~is_set(num, latch) \/ event_type = "none" THEN rest
             ELSE Append(rest, OwPIOEvent(ChName(pio_type, num), event_type, FALSE))

\* OwPIODevice.__init__ and config(): the channels are created from the
\* configuration and the alarm setting is calculated; check_alarm_config has
\* run and succeeded, or its first bus operation raised OwnetError, which
\* DeviceFactory.create catches
PioInit ==
    /\ CoreIdle
    /\ MoatIdle
    /\ StepIdle
    /\ PortIdle
    /\ AhIdle
    /\ ParseIdle
    /\ InfluxIdle
    /\ \/ /\ pio_type = "DS2406"
          /\ \E mode \in PioModes :
                channels = <<mode, PIO_MODE_INPUT_TOGGLE + PIO_MODE_ACTIVE_HIGH>>
       \/ /\ pio_type = "DS2408"
          /\ channels = [n \in 1..NumChannels("DS2408") |-> PIO_MODE_INPUT_MOMENTARY]
    /\ wanted_alarm = CalculateAlarmSetting(pio_type, channels)
    /\ \/ inital_setup_done = TRUE /\ chip_set_alarm = wanted_alarm /\ chip_por = 0
       \/ /\ inital_setup_done = FALSE /\ chip_set_alarm = PowerOnAlarm(pio_type)
          /\ chip_por = IF pio_type = "DS2408" THEN 1 ELSE 0
    /\ last_sensed = -1
    /\ chip_latch = 0
    /\ chip_sensed \in 0..(2 ^ MaxPins - 1)
    /\ lastAlarm = NoAlarm

\* a pin changes level: the chip sets the channel's activity latch
PinChange(num) ==
    /\ chip_sensed' = IF is_set(num, chip_sensed)
                      THEN chip_sensed - 2 ^ num ELSE chip_sensed + 2 ^ num
    /\ chip_latch' = IF is_set(num, chip_latch) THEN chip_latch ELSE chip_latch + 2 ^ num
    /\ UNCHANGED <<pio_type, channels, wanted_alarm, inital_setup_done, last_sensed,
                   chip_set_alarm, chip_por, lastAlarm>>
    /\ UNCHANGED <<NonDev, NonPio>>

\* the chip loses power and comes back: set_alarm is back at its default and
\* a DS2408 raises por; the activity latches may or may not survive
PowerCycle ==
    /\ chip_set_alarm' = PowerOnAlarm(pio_type)
    /\ chip_por' = IF pio_type = "DS2408" THEN 1 ELSE 0
    /\ chip_latch' \in {0, chip_latch}
    /\ UNCHANGED <<pio_type, channels, wanted_alarm, inital_setup_done, last_sensed,
                   chip_sensed, lastAlarm>>
    /\ UNCHANGED <<NonDev, NonPio>>

\* what the performed bus operations leave on the chip
ChipAfter(done) ==
    /\ chip_set_alarm' = IF \E k \in 1..Len(done) : done[k] = "write set_alarm"
                         THEN wanted_alarm ELSE chip_set_alarm
    /\ chip_latch' = IF \E k \in 1..Len(done) : done[k] = "write latch.BYTE"
                     THEN 0 ELSE chip_latch
    /\ chip_por' = IF \E k \in 1..Len(done) : done[k] = "write por" THEN 0 ELSE chip_por
    /\ chip_sensed' = chip_sensed

\* on_seen(timestamp): check_alarm_config, then the first reading of
\* sensed.BYTE; fail is the number of the bus operation that raises
PioOnSeen(fail) ==
    /\ pio_type # "none"
    /\ LET check == PorOps \o CheckOps
           ops == check \o (IF last_sensed = -1 THEN <<"read sensed.BYTE">> ELSE <<>>)
           done == Performed(ops, fail)
       IN  /\ fail <= Len(ops)
           /\ ChipAfter(done)
           /\ inital_setup_done' = (inital_setup_done \/ Len(done) >= Len(check))
           /\ last_sensed' = IF Len(done) = Len(ops) /\ last_sensed = -1
                             THEN chip_sensed ELSE last_sensed
    /\ UNCHANGED <<pio_type, channels, wanted_alarm, lastAlarm>>
    /\ UNCHANGED <<NonDev, NonPio>>

\* on_alarm(timestamp): check_alarm_config; unless the device was not ready,
\* read latch.BYTE and sensed.BYTE, write latch.BYTE, _handle_alarm, and
\* remember sensed; fail is the number of the bus operation that raises
PioOnAlarm(fail) ==
    /\ pio_type # "none"
    /\ LET check == PorOps \o CheckOps
           ops == check \o (IF NotReady THEN <<>> ELSE AlarmOps)
           done == Performed(ops, fail)
           checked == Len(done) >= Len(check)
           handled == ~NotReady /\ Len(done) = Len(ops)
           init_events == IF checked /\ (Reconfigure(chip_set_alarm) \/ ~inital_setup_done)
                          THEN EmitInitState(chip_sensed, Len(channels)) ELSE <<>>
           alarm_events == IF handled
                           THEN HandleAlarm(chip_latch, chip_sensed, last_sensed,
                                            Len(channels))
                           ELSE <<>>
       IN  /\ fail <= Len(ops)
           /\ ChipAfter(done)
           /\ inital_setup_done' = (inital_setup_done \/ checked)
           /\ last_sensed' = IF handled THEN chip_sensed ELSE last_sensed
           /\ lastAlarm' = [ops |-> done, failed |-> Failed(ops, fail), handled |-> handled,
                            alarm |-> chip_set_alarm,
                            written |-> IF \E k \in 1..Len(done) : done[k] = "write set_alarm"
                                        THEN wanted_alarm ELSE "",
                            latch |-> chip_latch, sensed |-> chip_sensed,
                            last_sensed |-> last_sensed,
                            events |-> init_events \o alarm_events]
    /\ UNCHANGED <<pio_type, channels, wanted_alarm>>
    /\ UNCHANGED <<NonDev, NonPio>>

\* the longest sequence of bus operations of one call
MaxBusOps == Len(<<"read por", "write por", "write out_of_testmode", "write latch.BYTE">>)
             + Len(<<"read set_alarm", "write set_alarm", "write latch.BYTE", "read sensed.BYTE">>)
             + 1

PioNext ==
    \/ \E num \in 0..(MaxPins - 1) : PinChange(num)
    \/ PowerCycle
    \/ \E fail \in 0..MaxBusOps : PioOnSeen(fail)
    \/ \E fail \in 0..MaxBusOps : PioOnAlarm(fail)

PioSpec == PioInit /\ [][PioNext]_vars

---------------------------------------------------------------------------
\* OwPIODevice.on_alarm bus operation by bus operation, on a device that is
\* set up, while the pins go on changing. The alarm scan lists the device
\* while one of its activity latches is set.

\* the value of the last event of each channel, or what was announced before
Announce(before, events) ==
    [n \in 1..Len(channels) |->
        LET own == SelectSeq(events, LAMBDA e : e.channel = ChName(pio_type, n - 1))
        IN  IF own = <<>> THEN before[n] ELSE own[Len(own)].value]

\* the device after config() and the first on_seen: set_alarm is as wanted,
\* the initial state has been announced and sensed.BYTE remembered
StepInit ==
    /\ CoreIdle
    /\ MoatIdle
    /\ PortIdle
    /\ AhIdle
    /\ ParseIdle
    /\ InfluxIdle
    /\ \/ /\ pio_type = "DS2406"
          /\ \E mode \in PioModes :
                channels = <<mode, PIO_MODE_INPUT_TOGGLE + PIO_MODE_ACTIVE_HIGH>>
       \/ /\ pio_type = "DS2408"
          /\ channels = [n \in 1..NumChannels("DS2408") |-> PIO_MODE_INPUT_MOMENTARY]
    /\ wanted_alarm = CalculateAlarmSetting(pio_type, channels)
    /\ inital_setup_done = TRUE
    /\ chip_set_alarm = wanted_alarm
    /\ chip_por = 0
    /\ chip_latch = 0
    /\ chip_sensed \in 0..(2 ^ MaxPins - 1)
    /\ last_sensed = chip_sensed
    /\ lastAlarm = NoAlarm
    /\ apc = "idle"
    /\ latch_read = 0
    /\ sensed_read = 0
    /\ announced = Announce([n \in 1..Len(channels) |-> "none"],
                            EmitInitState(chip_sensed, Len(channels)))

\* on_alarm is called; check_alarm_config finds set_alarm as wanted
AlarmCheck ==
    /\ apc = "idle"
    /\ chip_latch # 0
    /\ ~NotReady
    /\ apc' = "read latch.BYTE"
    /\ UNCHANGED <<latch_read, sensed_read, announced>>
    /\ UNCHANGED <<pioVars, NonDev, NonStep>>

\* latch = int(self.ow_read_str('latch.BYTE', uncached=True))
AlarmReadLatch ==
    /\ apc = "read latch.BYTE"
    /\ latch_read' = chip_latch
    /\ apc' = "read sensed.BYTE"
    /\ UNCHANGED <<sensed_read, announced>>
    /\ UNCHANGED <<pioVars, NonDev, NonStep>>

\* sensed = int(self.ow_read_str('sensed.BYTE', uncached=True))
AlarmReadSensed ==
    /\ apc = "read sensed.BYTE"
    /\ sensed_read' = chip_sensed
    /\ apc' = "write latch.BYTE"
    /\ UNCHANGED <<latch_read, announced>>
    /\ UNCHANGED <<pioVars, NonDev, NonStep>>

\* self.ow_write('latch.BYTE', '1') clears every activity latch; then
\* _handle_alarm(timestamp, latch, sensed, last_sensed) and
\* self._last_sensed = sensed
AlarmClearAndHandle ==
    /\ apc = "write latch.BYTE"
    /\ LET events == HandleAlarm(latch_read, sensed_read, last_sensed, Len(channels))
       IN  /\ chip_latch' = 0
           /\ last_sensed' = sensed_read
           /\ announced' = Announce(announced, events)
           /\ lastAlarm' = [ops |-> <<"read set_alarm">> \o AlarmOps, failed |-> "none",
                            handled |-> TRUE, alarm |-> chip_set_alarm, written |-> "",
                            latch |-> latch_read, sensed |-> sensed_read,
                            last_sensed |-> last_sensed, events |-> events]
    /\ apc' = "idle"
    /\ UNCHANGED <<latch_read, sensed_read>>
    /\ UNCHANGED <<pio_type, channels, wanted_alarm, inital_setup_done, chip_set_alarm,
                   chip_sensed, chip_por>>
    /\ UNCHANGED <<NonDev, NonStep>>

StepNext ==
    \/ \E num \in 0..(MaxPins - 1) : PinChange(num)
    \/ AlarmCheck
    \/ AlarmReadLatch
    \/ AlarmReadSensed
    \/ AlarmClearAndHandle

StepSpec == StepInit /\ [][StepNext]_vars

---------------------------------------------------------------------------
\* MoaT (device/MoaT.py): a device whose config/types reads "adc=1\ncount=1",
\* with adc.1 configured with states (MoaTADCChannel) and count.1
\* (MoaTCountChannel).
ADC_MIN == 0
ADC_MAX == 65535

\* build_states: (name, low, high, guess) with low defaulting to ADC_MIN, high
\* to ADC_MAX and guess to True, sorted by low
StateEnt(name, low, high, guess) == [name |-> name, low |-> low, high |-> high, guess |-> guess]
StateConfigs ==
    { << StateEnt("short", ADC_MIN, 3000, TRUE), StateEnt("closed", 3000, 38000, TRUE),
         StateEnt("open", 38000, 45000, TRUE), StateEnt("cut", 45000, ADC_MAX, TRUE) >>,
      << StateEnt("closed", 3000, 38000, TRUE), StateEnt("open", 38000, 45000, FALSE) >> }

\* the values the ADC is read at
AdcValues == {2000, 20000, 38000, 42000, 50000}

\* get_state_entry(value): the first state with low <= value <= high; None is 0
get_state_entry(v) ==
    IF \E n \in 1..Len(adc_states) : v >= adc_states[n].low /\ v <= adc_states[n].high
    THEN CHOOSE n \in 1..Len(adc_states) :
             /\ v >= adc_states[n].low /\ v <= adc_states[n].high
             /\ \A m \in 1..(n - 1) : ~(v >= adc_states[m].low /\ v <= adc_states[m].high)
    ELSE 0

\* guess_state_entry(adc_threshold_crossed) for the current state cur: the
\* state below for '-', the state above for '+', clamped; None is 0
GuessNone(cur, adc_threshold_crossed) == 0
guess_state_entry(cur, adc_threshold_crossed) ==
    IF ~\E n \in 1..Len(adc_states) : adc_states[n].name = cur THEN 0
    ELSE LET n == CHOOSE k \in 1..Len(adc_states) : adc_states[k].name = cur
             max(a, b) == IF a > b THEN a ELSE b
             min(a, b) == IF a < b THEN a ELSE b
         IN  IF ~adc_states[n].guess THEN 0
             ELSE IF adc_threshold_crossed = "-" THEN max(1, n - 1)
             ELSE IF adc_threshold_crossed = "+" THEN min(Len(adc_states), n + 1)
             ELSE 0

BusOp(op, path, data) == [op |-> op, path |-> path, data |-> data]
BusRead(path) == BusOp("read", path, <<>>)

\* what a call has done so far: the channel adc.1 (c), the bus operations
\* (log), the events emitted, the exception raised and the device's
\* ignore_next_silent_alarm
Chan(cur, v, low, high) == [current_state |-> cur, value |-> v, low |-> low, high |-> high]
Raised(r, kind) == [r EXCEPT !.raised = kind]

\* set_thresholds(low_threshold, high_threshold): ADC_MIN as low is written as
\* ADC_MAX, ADC_MAX as high is written as 0
ThresholdsAsGiven(low, high) == <<low, high>>
WrittenThresholds(low, high) ==
    << IF low = ADC_MIN THEN ADC_MAX ELSE low, IF high = ADC_MAX THEN 0 ELSE high >>
set_thresholds(r, low, high) ==
    LET w == WrittenThresholds(low, high)
    IN  [r EXCEPT !.c.low = w[1], !.c.high = w[2],
                  !.log = Append(@, BusOp("write", "adc.1", w))]

\* set_state(timestamp, state_ent, is_reset); state_ent None raises TypeError
\* at state_ent[0]
set_state(r, n, is_reset) ==
    IF n = 0 THEN Raised(r, "TypeError")
    ELSE set_thresholds([r EXCEPT !.c.current_state = adc_states[n].name,
                                  !.events = Append(@, OwPIOEvent("adc.1", adc_states[n].name,
                                                                 is_reset))],
                        adc_states[n].low, adc_states[n].high)

\* MoaTADCChannel.init(value)
AdcInit(r, v) ==
    set_state([r EXCEPT !.c.value = v], get_state_entry(v), TRUE)

\* MoaTADCChannel.on_seen(timestamp, value); s[0] raises TypeError when no
\* state covers the value
OnSeenAlways(cur, name) == TRUE
OnSeenChanged(cur, name) == cur # name
AdcOnSeen(r, v) ==
    LET r1 == [r EXCEPT !.c.value = v]
        n == get_state_entry(v)
    IN  IF n = 0 THEN Raised(r1, "TypeError")
        ELSE IF OnSeenChanged(r1.c.current_state, adc_states[n].name)
        THEN set_state([r1 EXCEPT !.ignore = TRUE], n, FALSE)
        ELSE r1

\* MoaTADCChannel.on_alarm(timestamp, adc_threshold_crossed)
AdcOnAlarm(r, v, adc_threshold_crossed) ==
    LET r1 == [r EXCEPT !.c.value = v, !.log = Append(@, BusRead("adc.1"))]
        n == get_state_entry(v)
        g == guess_state_entry(r1.c.current_state, adc_threshold_crossed)
    IN  IF n = 0 THEN set_thresholds(r1, ADC_MAX, ADC_MIN)
        ELSE IF adc_states[n].name = r1.c.current_state
        THEN (IF g = 0 THEN r1 ELSE set_state(r1, g, FALSE))
        ELSE set_state(r1, n, FALSE)

\* init_channels(config): the channels exist already or are created, then
\* each is initialised: adc.1 with the value read from adcs, count.1 without
init_channels(r, v) ==
    LET r1 == [r EXCEPT !.log = @ \o <<BusRead("config/name"), BusRead("config/types"),
                                       BusRead("adcs")>>]
        r2 == AdcInit(r1, v)
    IN  IF r2.raised # "none" THEN r2 ELSE [r2 EXCEPT !.ignore = TRUE]

\* the alarms the device reports: alarm/sources and alarm/<type> of each
\* source, every port as the characters read
Orders == { <<>>, <<"adc">>, <<"count">>, <<"status">>, <<"adc", "status">>,
            <<"status", "adc">>, <<"count", "adc">>, <<"adc", "count", "status">> }
StatusPorts == { <<>>, << <<"reboot">> >>, << <<"other">> >> }
AdcPorts == { <<>>, << <<"+", "1">> >>, << <<"-", "1">> >>, << <<"1">> >>,
              << <<"2">>, <<"+", "1">> >> }
CountPorts == { << <<"1">> >> }
Has(sources, port_type) == \E k \in 1..Len(sources) : sources[k] = port_type
Alarms ==
    { a \in [sources : Orders, status : StatusPorts, adc : AdcPorts, count : CountPorts] :
        /\ ~Has(a.sources, "status") => a.status = <<>>
        /\ ~Has(a.sources, "adc") => a.adc = <<>>
        /\ (Has(a.sources, "status") /\ Has(a.sources, "adc")) => a.adc = << <<"+", "1">> >> }

\* if 'status' in sources: sources.remove('status'); sources.insert(0, 'status')
SourcesAsRead(sources) == sources
StatusFirst(sources) ==
    IF Has(sources, "status")
    THEN <<"status">> \o SelectSeq(sources, LAMBDA t : t # "status")
    ELSE sources

\* on_status_alarm(timestamp, status_name): returns False in every case
on_status_alarm(r, status_name, v) ==
    LET r1 == [r EXCEPT !.log = Append(@, BusRead("status/" \o status_name))]
    IN  IF status_name = "reboot" THEN init_channels(r1, v) ELSE r1

\* the loop over the ports of one source in on_alarm; the result says whether
\* alarm processing was aborted
RECURSIVE Ports(_, _, _, _)
Ports(r, port_type, ports, v) ==
    IF ports = <<>> THEN [r |-> r, aborted |-> FALSE]
    ELSE LET port == Head(ports)
             adc_thresh == IF port[1] \in {"-", "+"} THEN port[1] ELSE ""
             port_no == IF port[1] \in {"-", "+"} THEN Tail(port) ELSE port
         IN  IF port_type = "status"
             THEN [r |-> on_status_alarm(r, port_no[1], v), aborted |-> TRUE]
             ELSE IF port_no # <<"1">> THEN Ports(r, port_type, Tail(ports), v)
             ELSE IF port_type = "adc"
             THEN Ports(AdcOnAlarm(r, v, adc_thresh), port_type, Tail(ports), v)
             ELSE Ports([r EXCEPT !.log = Append(@, BusRead("count.1"))], port_type,
                        Tail(ports), v)

\* the loop over the sources in on_alarm
RECURSIVE Sources(_, _, _, _)
Sources(r, sources, alarm, v) ==
    IF sources = <<>> THEN r
    ELSE LET port_type == Head(sources)
             r1 == [r EXCEPT !.log = Append(@, BusRead("alarm/" \o port_type))]
             done == Ports(r1, port_type, alarm[port_type], v)
         IN  IF done.aborted \/ done.r.raised # "none" THEN done.r
             ELSE Sources(done.r, Tail(sources), alarm, v)

Start(ignore) ==
    [c |-> Chan(current_state, adc_value, wanted_low_threshold, wanted_high_threshold),
     log |-> <<>>, events |-> <<>>, raised |-> "none", warned |-> FALSE, ignore |-> ignore]

\* the call leaves the channel and the device as r says
MoatAfter(r, op, sources, v, crossed) ==
    /\ current_state' = r.c.current_state
    /\ adc_value' = r.c.value
    /\ wanted_low_threshold' = r.c.low
    /\ wanted_high_threshold' = r.c.high
    /\ ignore_next_silent_alarm' = r.ignore
    /\ lastCall' = [op |-> op, sources |-> sources, log |-> r.log, events |-> r.events,
                    raised |-> r.raised, warned |-> r.warned,
                    state_before |-> current_state, value |-> v,
                    crossed |-> crossed, ignore_before |-> ignore_next_silent_alarm]
    /\ UNCHANGED adc_states
    /\ UNCHANGED <<NonDev, NonMoat>>

\* MoaT.__init__ and config(): status/reboot is read, the channels are
\* created and initialised with a value that one of the states covers
MoatInit ==
    /\ CoreIdle
    /\ PioIdle
    /\ StepIdle
    /\ PortIdle
    /\ AhIdle
    /\ ParseIdle
    /\ InfluxIdle
    /\ adc_states \in StateConfigs
    /\ \E v \in AdcValues :
          LET r == init_channels([c |-> Chan("None", 0, -1, -1),
                                  log |-> <<BusRead("status/reboot")>>, events |-> <<>>,
                                  raised |-> "none", warned |-> FALSE,
                                  ignore |-> FALSE], v)
          IN  /\ r.raised = "none"
              /\ current_state = r.c.current_state
              /\ adc_value = r.c.value
              /\ wanted_low_threshold = r.c.low
              /\ wanted_high_threshold = r.c.high
              /\ ignore_next_silent_alarm = r.ignore
              /\ lastCall = [op |-> "config", sources |-> <<>>, log |-> r.log,
                             events |-> r.events, raised |-> r.raised, warned |-> FALSE,
                             state_before |-> "None", value |-> v, crossed |-> "",
                             ignore_before |-> FALSE]

\* MoaT.on_seen(timestamp): read_combined, then on_seen of every channel in
\* the order of the channels dict
MoatOnSeen(v, adc_first) ==
    /\ adc_states # <<>>
    /\ LET r0 == [Start(ignore_next_silent_alarm) EXCEPT !.log = <<BusRead("adcs")>>]
           count(r) == [r EXCEPT !.log = Append(@, BusRead("count.1")),
                                 !.events = Append(@, OwPIOEvent("count.1", "counter", FALSE))]
           r == IF adc_first
                THEN LET r1 == AdcOnSeen(r0, v)
                     IN  IF r1.raised # "none" THEN r1 ELSE count(r1)
                ELSE AdcOnSeen(count(r0), v)
       IN  MoatAfter(r, "on_seen", <<>>, v, "")

\* on_alarm with alarm/sources empty: "Device alarmed, but empty sources?" is
\* logged unless ignore_next_silent_alarm was set
EmptySourcesWarnedAlways(ignore_silent_alarm) == TRUE
EmptySourcesWarned(ignore_silent_alarm) == ~ignore_silent_alarm

\* MoaT.on_alarm(timestamp)
MoatOnAlarm(sources, alarm, v) ==
    /\ adc_states # <<>>
    /\ LET r0 == [Start(FALSE) EXCEPT !.log = <<BusRead("alarm/sources")>>]
           r == IF sources = <<>>
                THEN [r0 EXCEPT !.warned = EmptySourcesWarned(ignore_next_silent_alarm)]
                ELSE Sources(r0, StatusFirst(sources), alarm, v)
       IN  MoatAfter(r, "on_alarm", sources, v,
                     IF alarm["adc"] # <<>> /\ alarm["adc"][Len(alarm["adc"])][1] \in {"-", "+"}
                     THEN alarm["adc"][Len(alarm["adc"])][1] ELSE "")

MoatNext ==
    \/ \E v \in AdcValues, adc_first \in BOOLEAN : MoatOnSeen(v, adc_first)
    \/ \E alarm \in Alarms, v \in AdcValues : MoatOnAlarm(alarm.sources, alarm, v)

MoatSpec == MoatInit /\ [][MoatNext]_vars

--------------------------------------------------------------------------
\* The port channels of a MoaT device (device/MoaT.py: MoaTPortChannel)

MaxPorts == 2
PortNums == 1..MaxPorts
PortLevels == {0, 1}

PortName(n) == <<"port.1", "port.2", "port.3", "port.4">>[n]

\* port_value_to_event_type(value): event_type is assigned ON when value
\* equals is_active_high and OFF otherwise, and the function ends without a
\* return statement, so that the caller gets None
port_value_to_event_type(mode, value) ==
    LET event_type == IF (value = 1) = is_active_high(mode) THEN "ON" ELSE "OFF"
    IN  "None"

\* MoaTPortChannel.init(value): the value is cached; toggle inputs and
\* outputs emit an event with is_reset=True
PortChannelInit(n, mode, value) ==
    IF ~is_input_toggle(mode) /\ ~is_output(mode) THEN <<>>
    ELSE <<OwPIOEvent(PortName(n), port_value_to_event_type(mode, value), TRUE)>>

RECURSIVE PortInitEvents(_, _, _)
PortInitEvents(modes, values, n) ==
    IF n = 0 THEN <<>>
    ELSE PortInitEvents(modes, values, n - 1) \o PortChannelInit(n, modes[n], values[n])

\* MoaT.init_channels for the port channels: the channels are created with
\* the configured modes and initialised with the values read from 'ports'
PortInit ==
    /\ CoreIdle
    /\ StepIdle
    /\ AhIdle
    /\ PioIdle
    /\ MoatIdle
    /\ ParseIdle
    /\ InfluxIdle
    /\ port_modes \in [PortNums -> PioModes]
    /\ port_values \in [PortNums -> PortLevels]
    /\ lastPort = [NoPortCall EXCEPT !.op = "init",
                                     !.events = PortInitEvents(port_modes, port_values,
                                                               MaxPorts)]

\* MoaTPortChannel.on_alarm(timestamp) of port.n when the device gives v
\* for the channel: the value is read and cached, then the event type is
\* decided. In the first branch event_type is assigned only when the value
\* has changed, in the second the name ch is not defined, and the test
\* "if event_type" reads the local whether or not it was assigned.
PortOnAlarm(n, v) ==
    LET mode == port_modes[n]
        prev_value == port_values[n]
        has_changed == v # prev_value
        toggles == is_output(mode) \/ (is_input(mode) /\ is_input_toggle(mode))
        raised == IF toggles
                  THEN (IF has_changed THEN "none" ELSE "UnboundLocalError")
                  ELSE "NameError"
        event_type == IF toggles /\ has_changed
                      THEN port_value_to_event_type(mode, v)
                      ELSE "None"
    IN  /\ port_values' = [port_values EXCEPT ![n] = v]
        /\ lastPort' = [op |-> "on_alarm", ch |-> n, prev_value |-> prev_value,
                        read |-> v, written |-> -1, raised |-> raised,
                        events |-> IF raised = "none" /\ event_type # "None"
                                   THEN <<OwPIOEvent(PortName(n), event_type, FALSE)>>
                                   ELSE <<>>]
        /\ UNCHANGED port_modes
        /\ UNCHANGED <<NonDev, NonPort>>

\* MoaTPortChannel.set_output(value): refused unless the channel is an
\* output; writes 1 when value and is_active_high agree, 0 otherwise
PortSetOutput(n, value) ==
    LET mode == port_modes[n]
        active_high == is_active_high(mode)
        out_value == IF (value /\ active_high) \/ (~value /\ ~active_high) THEN 1 ELSE 0
    IN  /\ lastPort' = [NoPortCall EXCEPT
                            !.op = "set_output", !.ch = n,
                            !.raised = IF is_output(mode) THEN "none"
                                       ELSE "InvalidChannelError",
                            !.written = IF is_output(mode) THEN out_value ELSE -1]
        /\ UNCHANGED <<port_modes, port_values>>
        /\ UNCHANGED <<NonDev, NonPort>>

PortNext ==
    \/ \E n \in PortNums, v \in PortLevels : PortOnAlarm(n, v)
    \/ \E n \in PortNums, value \in BOOLEAN : PortSetOutput(n, value)

PortSpec == PortInit /\ [][PortNext]_vars

--------------------------------------------------------------------------
\* ActionEventHandler.handle_event_blocking (event/actionhandler.py) for the
\* event types configured on one channel of one device

MaxActTime == 1
ActTimes == 0..MaxActTime

\* the configured event types and the number of actions each has
EventTypes == {"on", "off"}
NumActions(event_type) == IF event_type = "on" THEN 2 ELSE 1
ActionIds == {<<e, i>> : e \in EventTypes, i \in 1..2} \ {<<"off", 2>>}

\* inventory.aliases as config gives it: ordinary aliases, or aliases
\* spelled like the counters of the evaluation context
AliasSets == {{"hall"}, {"since_last_event", "since_last_run"}}

\* values of the evaluation context
Seconds(n) == [kind |-> "float", n |-> n]
DeviceObject == [kind |-> "device", n |-> 0]

\* ctx[name] where the evaluation reads it: the dict is created with the
\* counter None, then every alias is assigned its device, then the counter
\* is assigned when its timestamp is not None
Counter(name, last, upto) ==
    IF last # -1 THEN Seconds(upto - last)
    ELSE IF name \in ctx_aliases THEN DeviceObject
    ELSE PyNoneValue

\* event_cfg['last_ran'] after the shared conditional was evaluated
LastRanAlways(when, last_ran) == atime
LastRanAfter(when, last_ran) == IF when = "true" THEN atime ELSE last_ran

\* what one action of the loop did: its conditional rejected, or
\* handle_event set last_ran and called run, which returned or raised
ActionOutcomes == {"rejected", "ran", "raised"}

\* the loop over the actions is entered only when the shared conditional held
Outcomes(event_type, when) ==
    IF when = "true" THEN [1..NumActions(event_type) -> ActionOutcomes] ELSE {<<>>}

\* config(): every event_cfg is created with last_occurred and last_ran None
AhInit ==
    /\ CoreIdle
    /\ PioIdle
    /\ MoatIdle
    /\ StepIdle
    /\ PortIdle
    /\ ParseIdle
    /\ InfluxIdle
    /\ event_cfgs = [e \in EventTypes |-> [last_occurred |-> -1, last_ran |-> -1]]
    /\ action_last_ran = [a \in ActionIds |-> -1]
    /\ ctx_aliases \in AliasSets
    /\ atime = 0
    /\ occurred = {}
    /\ accepted = {}
    /\ lastHandled = NotHandled

AhTick ==
    /\ atime < MaxActTime
    /\ atime' = atime + 1
    /\ UNCHANGED <<event_cfgs, action_last_ran, ctx_aliases, occurred, accepted, lastHandled>>
    /\ UNCHANGED <<NonDev, NonAh>>

\* an event that is no OwPIOEvent or for which nothing is configured
HandleOther ==
    /\ lastHandled' = NotHandled
    /\ UNCHANGED <<event_cfgs, action_last_ran, ctx_aliases, atime, occurred, accepted>>
    /\ UNCHANGED <<NonDev, NonAh>>

\* handle_event_blocking(event) for a configured event type: the event's
\* timestamp, what the shared conditional gives on the context and what each
\* action does are inputs
HandleEventBlocking(event_type, timestamp, when, outcomes) ==
    LET event_cfg == event_cfgs[event_type]
        since_last_event == Counter("since_last_event", event_cfg.last_occurred, timestamp)
        since_last_run == Counter("since_last_run", event_cfg.last_ran, atime)
        executed(i) == outcomes[i] \in {"ran", "raised"}
    IN  /\ event_cfgs' = [event_cfgs EXCEPT
                             ![event_type] = [last_occurred |-> timestamp,
                                              last_ran |-> LastRanAfter(when, @.last_ran)]]
        /\ action_last_ran' =
              [a \in ActionIds |->
                  IF when = "true" /\ a[1] = event_type /\ executed(a[2])
                  THEN atime ELSE action_last_ran[a]]
        /\ occurred' = occurred \cup {event_type}
        /\ accepted' = IF when = "true" THEN accepted \cup {event_type} ELSE accepted
        /\ lastHandled' = [matched |-> TRUE, event_type |-> event_type,
                           timestamp |-> timestamp, at |-> atime,
                           first |-> event_type \notin occurred,
                           first_accepted |-> event_type \notin accepted,
                           since_last_event |-> since_last_event,
                           since_last_run |-> since_last_run,
                           when |-> when,
                           outcomes |-> outcomes,
                           raised |-> when = "raised"]
        /\ UNCHANGED <<ctx_aliases, atime>>
        /\ UNCHANGED <<NonDev, NonAh>>

AhNext ==
    \/ AhTick
    \/ HandleOther
    \/ \E event_type \in EventTypes, timestamp \in 0..atime,
          when \in {"true", "false", "raised"} :
          \E outcomes \in Outcomes(event_type, when) :
              HandleEventBlocking(event_type, timestamp, when, outcomes)

AhSpec == AhInit /\ [][AhNext]_vars

---------------------------------------------------------------------------
\* parse_target (owidutil.py). A string is the sequence of its characters; a
\* regular expression is the match it finds in such a sequence.
HexChars == {"0", "1", "2", "3", "4", "5", "6", "7", "8", "9", "A", "B", "C", "D", "E", "F"}

\* [0-9AB], the channel part of RE_DEV_CHANNEL and RE_ALIAS_CHANNEL
ChannelChars == {"0", "1", "2", "3", "4", "5", "6", "7", "8", "9", "A", "B"}

\* [A-Za-z0-9\-\_] as far as the strings here go
AliasChars == HexChars \cup {"a", "c", "d", "e", "m", "n", "o", "p", "r", "s", "t", "u", "v",
                             "I", "l", "i", "-", "_"}

PyNone == <<"None">>

\* [A-F0-9][A-F0-9]\.[A-F0-9]{12} matches s at position i
IdAt(s, i) ==
    /\ i + 14 <= Len(s)
    /\ s[i] \in HexChars /\ s[i + 1] \in HexChars
    /\ s[i + 2] = "."
    /\ \A k \in (i + 3)..(i + 14) : s[k] \in HexChars

\* RE_DEV_ID.search(id_or_path): group 1 of the leftmost match, or None
owid_from_path(s) ==
    IF \E i \in 1..Len(s) : IdAt(s, i)
    THEN LET i == CHOOSE k \in 1..Len(s) : IdAt(s, k) /\ \A j \in 1..(k - 1) : ~IdAt(s, j)
         IN  SubSeq(s, i, i + 14)
    ELSE PyNone

\* RE_DEV_ALIAS.match(alias) != None
is_valid_alias(s) == Len(s) >= 1 /\ s[1] \in AliasChars

\* RE_DEV_CHANNEL.match(tgt): the groups, or None
DevChannelMatch(s) ==
    IF IdAt(s, 1) /\ Len(s) >= 17 /\ s[16] = "." /\ s[17] \in ChannelChars
    THEN <<SubSeq(s, 1, 15), <<s[17]>> >>
    ELSE PyNone

\* the length of the longest run of alias characters s starts with
RECURSIVE AliasRun(_, _)
AliasRun(s, n) ==
    IF n < Len(s) /\ s[n + 1] \in AliasChars THEN AliasRun(s, n + 1) ELSE n

\* RE_ALIAS_CHANNEL.match(tgt): the groups, or None. '+' takes the whole run
\* of alias characters; a shorter run is followed by an alias character and
\* never by the dot
AliasChannelMatch(s) ==
    LET n == AliasRun(s, 0)
    IN  IF n >= 1 /\ Len(s) >= n + 2 /\ s[n + 1] = "." /\ s[n + 2] \in ChannelChars
        THEN <<SubSeq(s, 1, n), <<s[n + 2]>> >>
        ELSE PyNone

\* parse_target(tgt): (dev_id, ch)
parse_target(tgt) ==
    IF DevChannelMatch(tgt) # PyNone THEN DevChannelMatch(tgt)
    ELSE IF AliasChannelMatch(tgt) # PyNone THEN AliasChannelMatch(tgt)
    ELSE IF owid_from_path(tgt) # PyNone THEN <<owid_from_path(tgt), PyNone>>
    ELSE IF is_valid_alias(tgt) THEN <<tgt, PyNone>>
    ELSE <<PyNone, PyNone>>

\* canonical IDs: two hex digits, a dot, twelve hex digits
Families == { <<"1", "0">>, <<"2", "9">>, <<"F", "0">> }
Serials == { <<"C", "B", "3", "1", "0", "B", "0", "0", "0", "8", "0", "0">>,
             <<"0", "B", "D", "2", "C", "6", "D", "4", "C", "C", "6", "D">>,
             <<"B", "B", "B", "B", "B", "B", "B", "B", "B", "B", "B", "B">>,
             <<"E", "4", "0", "0", "0", "0", "0", "0", "0", "0", "A", "1">> }
CanonicalIds == { f \o <<".">> \o n : f \in Families, n \in Serials }

\* the aliases and the other strings of test_parse_target
OtherIds == { <<"s", "o", "m", "e", "d", "e", "v">>,
              <<"1", "0", "C", "B", "3", "1", "0", "B", "0", "0", "0", "8", "0", "0">>,
              <<"/", "I", "n", "v", "a", "l", "i", "d", "/", "n", "a", "m", "e", "/">> }

\* channel names: A, B, 0..7, port.N, adc.N, count.N
ChannelNames == { <<"A">>, <<"B">>, <<"0">>, <<"7">>,
                  <<"p", "o", "r", "t", ".", "1">>, <<"p", "o", "r", "t", ".", "2">>,
                  <<"a", "d", "c", ".", "1">>, <<"c", "o", "u", "n", "t", ".", "2">> }

ParseInit ==
    /\ CoreIdle
    /\ PioIdle
    /\ MoatIdle
    /\ StepIdle
    /\ PortIdle
    /\ AhIdle
    /\ ParseIdle
    /\ InfluxIdle

\* parse_target('<id>.<channel>') or parse_target('<id>')
ParseTarget(id, channel) ==
    /\ target' = IF channel = PyNone THEN id ELSE id \o <<".">> \o channel
    /\ given' = <<id, channel>>
    /\ parsed' = parse_target(target')
    /\ UNCHANGED <<NonDev, NonParse>>

ParseNext ==
    \E id \in CanonicalIds \cup OtherIds, channel \in ChannelNames \cup {PyNone} :
        ParseTarget(id, channel)

ParseSpec == ParseInit /\ [][ParseNext]_vars

---------------------------------------------------------------------------
\* InfluxDBEventHandler (event/influxdbhandler.py): the emitting thread in
\* handle_event and shutdown, the send thread in _run, and the queue of lines
\* between them. A line is the number of the event it was formatted from.
MaxLines == 4               \* the events handle_event formats a line from
MaxBatches == 2             \* max_batches of the configuration
MaxBatchSize == 2           \* max_batch_size of the configuration
QueueSizes == {1, 2}        \* max_queue_size of the configuration
GiveUpAfter == 3            \* _run: if exit_requested > 3

\* the event classes handle_event formats a line from, and one it returns on
EventClasses == {"OwTemperatureEvent", "OwCounterEvent", "OwAdcEvent", "OwStatisticsEvent",
                 "OwPIOEvent"}
Formatted(class) == class # "OwPIOEvent"

\* LineBatches._add_batch
RECURSIVE DropOldest(_)
DropOldest(bs) == IF Len(bs) >= MaxBatches THEN DropOldest(Tail(bs)) ELSE bs
AddBatch(bs) == Append(DropOldest(bs), <<>>)

\* LineBatches.add(item)
BatchesAdd(bs, item) ==
    LET added == [bs EXCEPT ![Len(bs)] = Append(@, item)]
    IN  IF Len(added[Len(added)]) >= MaxBatchSize THEN AddBatch(added) ELSE added

\* LineBatches.empty, backlogged, sent
BatchesEmpty(bs) == Len(bs) = 1 /\ Len(bs[Len(bs)]) = 0
Backlogged(bs) == Len(bs) > 1
BatchesSent(bs) == IF Len(bs) = 1 THEN << <<>> >> ELSE Tail(bs)

\* queue.Queue: full
Full == Len(influx_queue) >= max_queue_size

\* config() and start(): the queue is created and the send thread started
InfluxInit ==
    /\ CoreIdle
    /\ PioIdle
    /\ MoatIdle
    /\ StepIdle
    /\ PortIdle
    /\ AhIdle
    /\ ParseIdle
    /\ influx_queue = <<>>
    /\ unfinished_tasks = 0
    /\ max_queue_size \in QueueSizes
    /\ hpc = "idle"
    /\ next_line = 0
    /\ attempts = 0
    /\ dropped = {}
    /\ rpc = "drain"
    /\ batches = AddBatch(<<>>)
    /\ exit_requested = 0
    /\ last_send_ok = TRUE
    /\ spc = "none"

sendThreadVars == <<rpc, batches, exit_requested, last_send_ok>>

\* handle_event(event) up to the loop: an event of another class returns
HandleEventBegin(class) ==
    /\ hpc = "idle"
    /\ spc = "none"
    /\ next_line < MaxLines
    /\ IF Formatted(class)
       THEN /\ next_line' = next_line + 1
            /\ hpc' = "put"
            /\ attempts' = 0
       ELSE /\ attempts' = 0
            /\ UNCHANGED <<next_line, hpc>>
    /\ UNCHANGED <<influx_queue, unfinished_tasks, max_queue_size, dropped, spc, sendThreadVars>>
    /\ UNCHANGED <<NonDev, NonInflux>>

\* self.queue.put(line, False): returns, or raises queue.Full
HandlePut ==
    /\ hpc = "put"
    /\ attempts' = attempts + 1
    /\ IF Full
       THEN /\ hpc' = "get"
            /\ UNCHANGED <<influx_queue, unfinished_tasks>>
       ELSE /\ influx_queue' = Append(influx_queue, next_line)
            /\ unfinished_tasks' = unfinished_tasks + 1
            /\ hpc' = "idle"
    /\ UNCHANGED <<max_queue_size, next_line, dropped, spc, sendThreadVars>>
    /\ UNCHANGED <<NonDev, NonInflux>>

\* self.queue.get(False) after queue.Full: takes the oldest line, or raises
\* queue.Empty when the send thread has drained the queue meanwhile
Newest(q) == Len(q)
Oldest(q) == 1
HandleGet ==
    /\ hpc = "get"
    /\ IF influx_queue # <<>>
       THEN /\ dropped' = dropped \cup {influx_queue[Oldest(influx_queue)]}
            /\ influx_queue' = [k \in 1..(Len(influx_queue) - 1) |->
                                   IF k < Oldest(influx_queue) THEN influx_queue[k]
                                   ELSE influx_queue[k + 1]]
       ELSE UNCHANGED <<influx_queue, dropped>>
    /\ hpc' = "put"
    /\ UNCHANGED <<unfinished_tasks, max_queue_size, next_line, attempts, spc, sendThreadVars>>
    /\ UNCHANGED <<NonDev, NonInflux>>

\* _run, the loop that fills the batches: self.queue.get(block, timeout)
\* returns a line, then self.queue.task_done()
RunGet ==
    /\ rpc = "drain"
    /\ exit_requested = 0
    /\ influx_queue # <<>>
    /\ influx_queue' = Tail(influx_queue)
    /\ unfinished_tasks' = unfinished_tasks - 1
    /\ IF Head(influx_queue) # 0
       THEN batches' = BatchesAdd(batches, Head(influx_queue)) /\ UNCHANGED exit_requested
       ELSE exit_requested' = 1 /\ UNCHANGED batches
    /\ UNCHANGED <<rpc, last_send_ok>>
    /\ UNCHANGED <<max_queue_size, hpc, next_line, attempts, dropped, spc>>
    /\ UNCHANGED <<NonDev, NonInflux>>

\* _run, the end of that loop: exit was requested, the get raised
\* queue.Empty, or max_linger has passed
RunFilled ==
    /\ rpc = "drain"
    /\ \/ exit_requested > 0
       \/ /\ ~BatchesEmpty(batches)
          /\ influx_queue = <<>> \/ ~(Backlogged(batches) /\ last_send_ok)
    /\ rpc' = "send"
    /\ UNCHANGED <<batches, exit_requested, last_send_ok>>
    /\ UNCHANGED <<influx_queue, unfinished_tasks, max_queue_size, hpc, next_line, attempts,
                   dropped, spc>>
    /\ UNCHANGED <<NonDev, NonInflux>>

\* _run, after the loop: send the oldest batch, or return when there is none
\* and exit was requested
RunSend(ok) ==
    /\ rpc = "send"
    /\ IF ~BatchesEmpty(batches)
       THEN /\ last_send_ok' = ok
            /\ batches' = IF ok THEN BatchesSent(batches) ELSE batches
            /\ exit_requested' = IF ~ok /\ exit_requested > 0
                                 THEN exit_requested + 1 ELSE exit_requested
            /\ rpc' = IF ~ok /\ exit_requested > 0 /\ exit_requested + 1 > GiveUpAfter
                      THEN "exited" ELSE "drain"
       ELSE /\ rpc' = IF exit_requested > 0 THEN "exited" ELSE "drain"
            /\ UNCHANGED <<batches, exit_requested, last_send_ok>>
    /\ UNCHANGED <<influx_queue, unfinished_tasks, max_queue_size, hpc, next_line, attempts,
                   dropped, spc>>
    /\ UNCHANGED <<NonDev, NonInflux>>

\* shutdown(): self.queue.join(), self.queue.put(None), self.thread.join()
InfluxShutdown ==
    /\ hpc = "idle"
    /\ spc = "none"
    /\ spc' = "join"
    /\ UNCHANGED <<influx_queue, unfinished_tasks, max_queue_size, hpc, next_line, attempts,
                   dropped, sendThreadVars>>
    /\ UNCHANGED <<NonDev, NonInflux>>

InfluxQueueJoin ==
    /\ spc = "join"
    /\ unfinished_tasks = 0
    /\ spc' = "put"
    /\ UNCHANGED <<influx_queue, unfinished_tasks, max_queue_size, hpc, next_line, attempts,
                   dropped, sendThreadVars>>
    /\ UNCHANGED <<NonDev, NonInflux>>

InfluxPutNone ==
    /\ spc = "put"
    /\ ~Full
    /\ influx_queue' = Append(influx_queue, 0)
    /\ unfinished_tasks' = unfinished_tasks + 1
    /\ spc' = "thread_join"
    /\ UNCHANGED <<max_queue_size, hpc, next_line, attempts, dropped, sendThreadVars>>
    /\ UNCHANGED <<NonDev, NonInflux>>

InfluxThreadJoin ==
    /\ spc = "thread_join"
    /\ rpc = "exited"
    /\ spc' = "done"
    /\ UNCHANGED <<influx_queue, unfinished_tasks, max_queue_size, hpc, next_line, attempts,
                   dropped, sendThreadVars>>
    /\ UNCHANGED <<NonDev, NonInflux>>

InfluxNext ==
    \/ \E class \in EventClasses : HandleEventBegin(class)
    \/ HandlePut
    \/ HandleGet
    \/ RunGet
    \/ RunFilled
    \/ \E ok \in BOOLEAN : RunSend(ok)
    \/ InfluxShutdown
    \/ InfluxQueueJoin
    \/ InfluxPutNone
    \/ InfluxThreadJoin

InfluxSpec == InfluxInit /\ [][InfluxNext]_vars

\* the emitting thread and the send thread are threads of the interpreter:
\* neither is stopped for ever while it has a step to take; when events
\* arrive and when shutdown is called is up to the caller. Every round of
\* _run starts with a fresh max_linger, so it takes a line from a queue that
\* holds one before it goes on to send.
InfluxFairSpec ==
    /\ InfluxInit
    /\ [][InfluxNext]_vars
    /\ WF_vars(HandlePut)
    /\ WF_vars(HandleGet)
    /\ SF_vars(RunGet)
    /\ WF_vars(RunFilled)
    /\ WF_vars(\E ok \in BOOLEAN : RunSend(ok))
    /\ WF_vars(InfluxQueueJoin)
    /\ WF_vars(InfluxPutNone)
    /\ WF_vars(InfluxThreadJoin)

---------------------------------------------------------------------------
\* Properties of the scheduler

\* C1: whenever scheduler.run() has returned normally, every queue created
\* on the scheduler is empty.
C1_QueuesEmptyAfterRun ==
    pc = "done" => \A q \in 1..Len(queues) : queues[q] = <<>>

\* C2: a dispatch call on a queue with min_dispatch = m and max_dispatch = M
\* that held d due events has executed at most M and at least min(m, d)
\* events when it returns.
C2_DispatchBounds ==
    lastDispatch.queue # 0 =>
        /\ lastDispatch.executed <= lastDispatch.max_dispatch
        /\ lastDispatch.executed >= Min(lastDispatch.min_dispatch, lastDispatch.due)

\* C3: in each pass, by the time an event of a lower-priority queue executes,
\* the highest-priority queue has executed all of its events that were due at
\* the pass's now, up to its max_dispatch.
C3_HighDrainsFirst ==
    (pc = "dispatch" /\ qi > 1 /\ dispatched > 0) =>
        passInfo.executed >= Min(passInfo.due, qconf[1].max_dispatch)

\* C5: within one queue an event executes before every event still waiting
\* in that queue that is due later, or due at the same time and entered later.
C5_DueThenInsertionOrder ==
    lastPop.queue # 0 =>
        \A k \in 1..Len(lastPop.rest) :
            \/ lastPop.event.time < lastPop.rest[k].time
            \/ /\ lastPop.event.time = lastPop.rest[k].time
               /\ lastPop.event.seq < lastPop.rest[k].seq

\* the order H1, L1, H2, L2, ..., L10 as (queue, action, argument) triples
S6Expected ==
    << <<1, ActNoop, <<1>>>>, <<2, ActLow, <<1>>>>, <<1, ActNoop, <<2>>>> >>
    \o [k \in 1..(S6LowCount - 1) |-> <<2, ActLow, <<k + 1>>>>]

\* C4: in scenario S6, when run() has returned, all twelve events have
\* executed, in the order H1, L1, H2, L2, ..., L10.
C4_S6Order ==
    pc = "done" =>
        [k \in 1..Len(execLog) |->
            <<execLog[k].queue, execLog[k].event.action, execLog[k].event.argument>>]
        = S6Expected

\* run() was called and the low-priority queue holds event s, due by now
LowDue(s) ==
    /\ pc # "idle"
    /\ Len(queues) >= 2
    /\ \E k \in 1..Len(queues[2]) : queues[2][k].seq = s /\ queues[2][k].time <= clock

\* event s has been executed
Executed(s) == \E k \in 1..Len(execLog) : execLog[k].event.seq = s

\* C6: with min_dispatch >= 1 on every queue, a low-priority event whose due
\* time has passed is eventually executed, even though the high-priority
\* queue has a due event on every pass.
C6_NoStarvation == \A s \in 2..3 : LowDue(s) ~> Executed(s)

---------------------------------------------------------------------------
\* Properties of the threaded handler and the dispatcher

\* C7: no two operations on the owserver connection are in progress at the
\* same time: the worker thread never writes to the bus while the main thread
\* is inside a bus operation.
C7_BusSerialized == ~(mpc = "bus" /\ wpc = "bus")

\* C8: handle_event never blocks the main thread: the main thread is never
\* inside queue.put waiting for room in the handler's queue.
C8_HandleEventNeverBlocks == ~(mpc = "put" /\ QueueFull(tq))

\* C9: when shutdown() has returned, every event passed to handle_event has
\* been passed to handle_event_blocking exactly once, in the order enqueued,
\* and the worker thread has exited.
C9_ShutdownDrains ==
    mpc = "sd_done" => (handledLog = emitted /\ wpc = "exited" /\ tq = <<>>)

\* C9 witness: shutdown returned after three events, one of which raised and
\* one of which found the bounded queue full
C9_Witness ==
    /\ mpc = "sd_done"
    /\ maxsize = 1
    /\ Len(emitted) = MaxEmit
    /\ \E k \in 1..Len(emitted) : emitted[k].kind = "raise"
    /\ emitted[Len(emitted)].kind = "setpio"

\* C10: while paused nothing is delivered and the pause buffer holds at most
\* 100 events, the oldest being dropped when one more arrives; resume delivers
\* the buffered events to every handler in order and leaves the buffer empty.
C10_PauseBuffer ==
    [][ /\ Len(pause_queue') <= PauseQueueLimit
        /\ (paused /\ paused' =>
               \A h \in 1..Len(delivered) : delivered'[h] = delivered[h])
        /\ (paused /\ paused' /\ dNext' # dNext =>
               pause_queue' =
                   Append(IF Len(pause_queue) = PauseQueueLimit
                          THEN Tail(pause_queue) ELSE pause_queue, dNext))
        /\ (paused /\ ~paused' =>
               /\ pause_queue' = <<>>
               /\ Len(delivered') = Len(delivered)
               /\ \A h \in 1..Len(delivered) : delivered'[h] = delivered[h] \o pause_queue)
      ]_vars

\* C10 witness: 101 events arrived while paused from the start, the first was
\* dropped, and resume delivered the other 100 in order to both handlers
C10_Witness ==
    /\ ~paused
    /\ pause_queue = <<>>
    /\ Len(delivered) = MaxHandlers
    /\ dNext = PauseQueueLimit + 2
    /\ \A h \in 1..Len(delivered) :
          delivered[h] = [k \in 1..PauseQueueLimit |-> k + 1]

\* the handlers in registration order
AllHandlers == [h \in 1..Len(handlers) |-> h]

\* C11: for every event the unpaused dispatcher delivers, handle_event of
\* every registered handler is called exactly once, in registration order,
\* also when the handle_event of an earlier handler raises.
C11_EveryHandlerCalled ==
    lastEmit.event # 0 => lastEmit.calls = AllHandlers

\* C11 witness: an event was emitted to three handlers, the first of which
\* raises
C11_Witness ==
    /\ lastEmit.event # 0
    /\ Len(handlers) = MaxEmitHandlers
    /\ handlers[1].he = "raise"
    /\ lastEmit.calls = AllHandlers

\* C12: when OwMaster.shutdown has returned, shutdown has been called on
\* every registered handler, also when the shutdown of an earlier handler
\* raises.
C12_EveryHandlerShutDown ==
    epc = "sd_done" => sdCalls = AllHandlers

---------------------------------------------------------------------------
\* Properties of the inventory and the scan

\* the IDs the last scan enumerated
Enumerated == {lastScan.ids[k] : k \in 1..Len(lastScan.ids)}

\* the tasks the last scan entered for device id
TasksFor(id) == {k \in 1..Len(lastScan.tasks) : lastScan.tasks[k].dev = id}

\* C14: after a scan whose enumeration succeeded, for every enumerated ID of a
\* registered family (also one seen for the first time, also one listed
\* twice) exactly one task was entered: on_alarm on the high-priority queue
\* for an alarm scan, on_seen on the low-priority queue for a full scan.
C14_OneTaskPerDevice ==
    (lastOp = "scan" /\ lastScan.ok) =>
        \A id \in Enumerated :
            Family(id) \in RegisteredFamilies =>
                /\ Cardinality(TasksFor(id)) = 1
                /\ \A k \in TasksFor(id) :
                      lastScan.tasks[k] =
                          [queue |-> IF lastScan.alarm_mode THEN 1 ELSE 2,
                           task |-> IF lastScan.alarm_mode THEN "on_alarm" ELSE "on_seen",
                           dev |-> id]

\* C15: after a full scan whose enumeration succeeded a device is lost if and
\* only if its ID was not enumerated; a device enumerated by any scan is not
\* lost afterwards; an alarm scan sets no device's lost flag.
C15_LostIffNotEnumerated ==
    (lastOp = "scan" /\ lastScan.ok) =>
        /\ ~lastScan.alarm_mode =>
              \A id \in DevIds :
                  devices[id].kind = "dev" => (devices[id].lost <=> id \notin Enumerated)
        /\ \A id \in Enumerated : devices[id].kind = "dev" => ~devices[id].lost
        /\ lastScan.alarm_mode =>
              \A id \in DevIds : devices[id].lost => id \in lastScan.lostBefore

C17_RefreshIdempotent ==
    lastRefresh.n = 2 =>
        /\ devices = lastRefresh.devices
        /\ aliases = lastRefresh.aliases

---------------------------------------------------------------------------
\* Properties of the master: scan cadence, simultaneous conversion, main loop

\* the scan(scan_mode) events in the queues: on which queue, due when
ScanEventsOf(scan_mode) ==
    UNION { { <<q, queues[q][k].time>> :
                k \in { j \in 1..Len(queues[q]) :
                          /\ queues[q][j].action = ActScan
                          /\ queues[q][j].argument = <<scan_mode>> } } :
            q \in 1..Len(queues) }

\* the queue of a scan mode: low for full, high for alarm
OwnQueue(scan_mode) == IF scan_mode = SCAN_FULL THEN Low ELSE High

\* the claim as stated: a connection error always adds one to the counter the
\* scan started with
C13_CounterPlusOne ==
    lastScanRun.scan_mode # -1 =>
        LET r == lastScanRun
            interval == scan_interval[r.scan_mode + 1]
            extra == Second * Min(2 * r.errs_after + 1, 20)
        IN  /\ \E t \in 0..(r.at + interval + Second * 20) :
                  ScanEventsOf(r.scan_mode) = { <<OwnQueue(r.scan_mode), t>> }
            /\ r.conn_error =>
                  /\ r.errs_after = r.errs_before + 1
                  /\ ScanEventsOf(r.scan_mode) =
                        { <<OwnQueue(r.scan_mode), r.at + interval + extra>> }
            /\ (~r.conn_error /\ r.raised = "none") =>
                  /\ r.errs_after = 0
                  /\ ScanEventsOf(r.scan_mode) = { <<OwnQueue(r.scan_mode), r.at + interval>> }

\* C13: every execution of scan(mode) enters the next scan(mode) on that
\* mode's own queue. When it hit a connection error the delay is interval +
\* min(2*counter + 1, 20) s for the counter after the error, which is one more
\* than before when the enumeration failed, and 1 when the enumeration had
\* succeeded (and reset the counter) and the statistics read failed. When the
\* scan succeeded the counter is 0 and the delay is exactly interval.
C13_ScanBackoff ==
    lastScanRun.scan_mode # -1 =>
        LET r == lastScanRun
            interval == scan_interval[r.scan_mode + 1]
            extra == Second * Min(2 * r.errs_after + 1, 20)
        IN  /\ \E t \in 0..(r.at + interval + Second * 20) :
                  ScanEventsOf(r.scan_mode) = { <<OwnQueue(r.scan_mode), t>> }
            /\ r.conn_error =>
                  /\ r.errs_after = (IF r.scan_ok THEN 0 ELSE r.errs_before) + 1
                  /\ ScanEventsOf(r.scan_mode) =
                        { <<OwnQueue(r.scan_mode), r.at + interval + extra>> }
            /\ (~r.conn_error /\ r.raised = "none") =>
                  /\ r.errs_after = 0
                  /\ ScanEventsOf(r.scan_mode) = { <<OwnQueue(r.scan_mode), r.at + interval>> }

\* a full scan whose enumeration succeeded after earlier connection errors and
\* whose statistics read then hit a connection error: 3 s extra
C13_Witness ==
    /\ lastScanRun.scan_mode = SCAN_FULL
    /\ lastScanRun.conn_error
    /\ lastScanRun.scan_ok
    /\ lastScanRun.errs_before >= 1
    /\ lastScanRun.errs_after = 1
    /\ <<Low, lastScanRun.at + scan_interval[1] + Second * 3>> \in ScanEventsOf(SCAN_FULL)

\* the _simultaneous_temperature_read tasks in the low queue
SimReadsQueued ==
    { k \in 1..Len(queues[Low]) : queues[Low][k].action = ActSimRead }

\* C18: at most one simultaneous-temperature batch is pending: the write is
\* issued only when no batch is pending, the pending flag is set exactly while
\* the batch's read task is queued, and read_temperature of a batch never runs
\* earlier than 1.0 s after the batch's write.
C18_SingleBatch ==
    mlpc # "setup" =>
        /\ lastBatch.written => ~lastBatch.pending_before
        /\ simultaneous_temperature_pending <=> SimReadsQueued # {}
        /\ Cardinality(SimReadsQueued) <= 1
        /\ lastRead.called => lastRead.elapsed >= Second

\* a batch was written, its read task has run and read_temperature has been
\* called one second after the write
C18_Witness ==
    /\ lastBatch.written
    /\ ~simultaneous_temperature_pending
    /\ lastRead.called
    /\ lastRead.elapsed = Second

\* C19: when a full scan attempts to start a batch while one is pending, the
\* master keeps running: main() has not returned.
C19_MasterKeepsRunning ==
    lastScanRun.raised = "Exception" => mlpc # "crashed"

\* the bound of the model is reached: no further scan starts
Frozen == clock > horizon

\* C20: after a task raised a connection, protocol or owserver error, every
\* task that was queued at that moment is executed eventually.
C20_QueuedTasksExecuted ==
    (pc = "raised" /\ exc \in Caught) ~> (owed = {} \/ Frozen)


\* the places in the queues that hold a scan(scan_mode) task
QueuedScans(scan_mode) ==
    UNION { { <<q, k>> : k \in { j \in 1..Len(queues[q]) :
                                     /\ queues[q][j].action = ActScan
                                     /\ queues[q][j].argument = <<scan_mode>> } } :
            q \in 1..Len(queues) }

\* C34: while the main loop runs, for each scan mode exactly one scan task of
\* that mode is queued on that mode's queue or executing (a scan executes in
\* one step, in which it enters its successor), whatever the scans and the
\* other tasks raise
C34_OneScanPerMode ==
    mlpc = "run" =>
        \A scan_mode \in {SCAN_FULL, SCAN_ALARM} :
            /\ Cardinality(QueuedScans(scan_mode)) = 1
            /\ \A t \in QueuedScans(scan_mode) : t[1] = OwnQueue(scan_mode)

\* a full scan raised an error that _mainloop catches, an alarm task raised
\* one later, and the main loop runs on
C34_Witness ==
    /\ mlpc = "run"
    /\ pc = "raised"
    /\ exc = "ProtocolError"
    /\ lastPop.event.action = ActOnAlarm
    /\ lastScanRun.raised = "OwnetError"
    /\ Cardinality(QueuedScans(SCAN_FULL)) = 1
    /\ Cardinality(QueuedScans(SCAN_ALARM)) = 1

---------------------------------------------------------------------------
\* Properties of the PIO devices

\* position of a bus operation in the last on_alarm call, 0 when not performed
OpAt(op) ==
    IF \E k \in 1..Len(lastAlarm.ops) : lastAlarm.ops[k] = op
    THEN CHOOSE k \in 1..Len(lastAlarm.ops) :
             /\ lastAlarm.ops[k] = op
             /\ \A j \in (k + 1)..Len(lastAlarm.ops) : lastAlarm.ops[j] # op
    ELSE 0

\* the events of the last on_alarm call that are not initial-state events
AlarmEventsOf(name) ==
    SelectSeq(lastAlarm.events, LAMBDA e : e.channel = name /\ ~e.is_reset)

\* C21: when on_alarm finds set_alarm different from wanted_alarm it does not
\* read latch.BYTE and emits no event with is_reset = false; when no bus
\* operation fails it writes wanted_alarm to set_alarm and then 1 to
\* latch.BYTE; for the 8-channel device the value written is "133333333"
C21_ReconfigureSkipsAlarm ==
    (OpAt("read set_alarm") > 0 /\ lastAlarm.alarm # wanted_alarm) =>
        /\ OpAt("read latch.BYTE") = 0
        /\ ~lastAlarm.handled
        /\ \A k \in 1..Len(lastAlarm.events) : lastAlarm.events[k].is_reset
        /\ lastAlarm.failed = "none" =>
              /\ OpAt("write set_alarm") = OpAt("read set_alarm") + 1
              /\ OpAt("write latch.BYTE") = OpAt("write set_alarm") + 1
              /\ lastAlarm.written = wanted_alarm
              /\ pio_type = "DS2408" => lastAlarm.written = "133333333"

C21_Witness ==
    /\ pio_type = "DS2408"
    /\ lastAlarm.alarm = "000000000"
    /\ lastAlarm.failed = "none"
    /\ lastAlarm.written = "133333333"
    /\ OpAt("write latch.BYTE") = Len(lastAlarm.ops) - 1

C23_MomentaryTriggedOnce ==
    lastAlarm.handled =>
        /\ \A n \in 1..Len(channels) :
              LET mode == channels[n]
                  name == ChName(pio_type, n - 1)
                  active == is_active_high(mode)
                  seen == is_set(n - 1, lastAlarm.sensed)
                  before == is_set(n - 1, lastAlarm.last_sensed)
                  TRIGGED == <<OwPIOEvent(name, "TRIGGED", FALSE)>>
              IN  (is_input_momentary(mode) /\ is_set(n - 1, lastAlarm.latch)) =>
                      AlarmEventsOf(name) =
                          IF seen = active THEN TRIGGED
                          ELSE IF lastAlarm.last_sensed # -1 /\ before = active THEN <<>>
                          ELSE TRIGGED
        /\ (/\ pio_type = "DS2406" /\ channels[1] = PIO_MODE_INPUT_MOMENTARY
            /\ lastAlarm.last_sensed = 0 /\ lastAlarm.latch = 1 /\ lastAlarm.sensed = 0) =>
               /\ AlarmEventsOf("A") = <<OwPIOEvent("A", "TRIGGED", FALSE)>>
               /\ last_sensed = 0

\* the release of a momentary input whose press the previous alarm reported
C23_Witness ==
    /\ lastAlarm.handled
    /\ is_input_momentary(channels[1])
    /\ is_set(0, lastAlarm.latch)
    /\ lastAlarm.last_sensed # -1
    /\ is_set(0, lastAlarm.last_sensed) = is_active_high(channels[1])
    /\ is_set(0, lastAlarm.sensed) # is_active_high(channels[1])
    /\ AlarmEventsOf(ChName(pio_type, 0)) = <<>>

\* C28: in a handled alarm an output or toggle input whose latch bit is set
\* emits one event exactly when its sensed bit differs from its bit in
\* last_sensed or last_sensed is unknown, ON when the sensed bit is the active
\* level and OFF otherwise; a channel whose latch bit is clear emits nothing;
\* afterwards last_sensed is the sensed byte that was read
C28_ToggleEventOnChange ==
    lastAlarm.handled =>
        /\ \A n \in 1..Len(channels) :
              LET mode == channels[n]
                  name == ChName(pio_type, n - 1)
                  seen == is_set(n - 1, lastAlarm.sensed)
                  before == is_set(n - 1, lastAlarm.last_sensed)
                  value == IF seen = is_active_high(mode) THEN "ON" ELSE "OFF"
              IN  /\ ~is_set(n - 1, lastAlarm.latch) => AlarmEventsOf(name) = <<>>
                  /\ (/\ is_output(mode) \/ is_input_toggle(mode)
                      /\ is_set(n - 1, lastAlarm.latch)) =>
                         AlarmEventsOf(name) =
                             IF lastAlarm.last_sensed = -1 \/ before # seen
                             THEN <<OwPIOEvent(name, value, FALSE)>>
                             ELSE <<>>
        /\ last_sensed = lastAlarm.sensed

\* a toggle input or output whose latch is set but whose level is what it was
C28_Witness ==
    /\ lastAlarm.handled
    /\ is_output(channels[1]) \/ is_input_toggle(channels[1])
    /\ is_set(0, lastAlarm.latch)
    /\ lastAlarm.last_sensed # -1
    /\ is_set(0, lastAlarm.last_sensed) = is_set(0, lastAlarm.sensed)
    /\ AlarmEventsOf(ChName(pio_type, 0)) = <<>>
    /\ last_sensed = lastAlarm.sensed

\* check_alarm_config, called with the bus operation number fail raising,
\* gets as far as _emit_init_state
InitStateEmitted(fail) ==
    /\ fail = 0 \/ fail > Len(PorOps \o CheckOps)
    /\ Reconfigure(chip_set_alarm) \/ ~inital_setup_done

\* C37: whenever check_alarm_config, called by on_seen or by on_alarm, emits
\* the is_reset=true events from the sensed byte it has read, last_sensed
\* equals that sensed byte when the call is over
C37_LastSensedFollowsInitState ==
    [][\A fail \in 0..MaxBusOps :
          ((PioOnSeen(fail) \/ PioOnAlarm(fail)) /\ InitStateEmitted(fail))
              => last_sensed' = chip_sensed]_vars

\* no activity latch is set and on_alarm is not running
Quiesced == apc = "idle" /\ chip_latch = 0

\* C38: a pin change between on_alarm's reads and its clearing write is not
\* lost: once alarm handling has quiesced, last_sensed is the chip's sensed
\* byte and the last event of every toggle input gives its actual level
C38_QuiescedStateIsActual ==
    Quiesced =>
        /\ last_sensed = chip_sensed
        /\ \A n \in 1..Len(channels) :
              (is_input(channels[n]) /\ is_input_toggle(channels[n])) =>
                  announced[n] = IF is_set(n - 1, chip_sensed) = is_active_high(channels[n])
                                 THEN "ON" ELSE "OFF"

---------------------------------------------------------------------------
\* Properties of the MoaT device

\* the last call performed the bus operation
Did(busop) == \E k \in 1..Len(lastCall.log) : lastCall.log[k] = busop

\* the thresholds the last call wrote to adc.1 last, <<>> when it wrote none
LastWritten ==
    IF \E k \in 1..Len(lastCall.log) : lastCall.log[k].op = "write"
    THEN LET k == CHOOSE i \in 1..Len(lastCall.log) :
                      /\ lastCall.log[i].op = "write"
                      /\ \A j \in (i + 1)..Len(lastCall.log) : lastCall.log[j].op # "write"
         IN  lastCall.log[k].data
    ELSE <<>>

\* the events of the last call for adc.1
AdcEvents == SelectSeq(lastCall.events, LAMBDA e : e.channel = "adc.1")

\* the thresholds of a state as the device is given them
Expected(n) ==
    << IF adc_states[n].low = 0 THEN 65535 ELSE adc_states[n].low,
       IF adc_states[n].high = 65535 THEN 0 ELSE adc_states[n].high >>

\* the channel went to state n in the last call: event, state and thresholds
Transition(n, is_reset) ==
    /\ AdcEvents = <<OwPIOEvent("adc.1", adc_states[n].name, is_reset)>>
    /\ current_state = adc_states[n].name
    /\ LastWritten = Expected(n)
    /\ <<wanted_low_threshold, wanted_high_threshold>> = Expected(n)

\* nothing happened to the channel in the last call
NoTransition ==
    /\ AdcEvents = <<>>
    /\ current_state = lastCall.state_before
    /\ LastWritten = <<>>

\* the last call initialised the channels (config, or a reboot reported)
Initialised == lastCall.op = "config" \/ Did(BusRead("config/types"))

\* C24: after init of the state-mode ADC channel with a value that state S
\* covers, current_state is S's name and the thresholds written are S's low
\* and high, with low 0 written as 65535 and high 65535 written as 0
C24_InitSetsStateAndThresholds ==
    (Initialised /\ get_state_entry(lastCall.value) # 0) =>
        /\ lastCall.raised = "none"
        /\ Transition(get_state_entry(lastCall.value), TRUE)

C24_Witness ==
    /\ lastCall.op = "on_alarm"
    /\ Initialised
    /\ current_state = "short"
    /\ LastWritten = <<65535, 3000>>

\* C25: in a periodic scan with a covered value, when the covering state is
\* not current_state one PIO event with its name and is_reset = false is
\* emitted, current_state and the thresholds follow and
\* ignore_next_silent_alarm is set; when it is current_state nothing is
\* emitted or written. With closed 3000..38000 and open 38000..45000, from
\* closed the value 42000 gives the event open and thresholds (38000, 45000)
C25_ScanFollowsState ==
    (lastCall.op = "on_seen" /\ get_state_entry(lastCall.value) # 0) =>
        LET n == get_state_entry(lastCall.value)
        IN  /\ lastCall.raised = "none"
            /\ IF adc_states[n].name # lastCall.state_before
               THEN Transition(n, FALSE) /\ ignore_next_silent_alarm
               ELSE NoTransition /\ ignore_next_silent_alarm = lastCall.ignore_before
            /\ (/\ Len(adc_states) = 2 /\ lastCall.state_before = "closed"
                /\ lastCall.value = 42000) =>
                   /\ AdcEvents = <<OwPIOEvent("adc.1", "open", FALSE)>>
                   /\ LastWritten = <<38000, 45000>>

C25_Witness ==
    /\ lastCall.op = "on_seen"
    /\ Len(adc_states) = 2
    /\ lastCall.state_before = "closed"
    /\ lastCall.value = 42000
    /\ current_state = "open"
    /\ ignore_next_silent_alarm

C30_StatusFirst ==
    (lastCall.op = "on_alarm" /\ Has(lastCall.sources, "status")) =>
        /\ lastCall.log[1] = BusRead("alarm/sources")
        /\ lastCall.log[2] = BusRead("alarm/status")
        /\ Did(BusRead("status/reboot")) =>
              /\ SubSeq(lastCall.log, 3, 6) = <<BusRead("status/reboot"), BusRead("config/name"),
                                                BusRead("config/types"), BusRead("adcs")>>
              /\ \A k \in 1..Len(lastCall.log) :
                    lastCall.log[k] \notin {BusRead("alarm/adc"), BusRead("alarm/count"),
                                            BusRead("adc.1"), BusRead("count.1")}
              /\ lastCall.raised = "none" =>
                    /\ AdcEvents = <<OwPIOEvent("adc.1", current_state, TRUE)>>
                    /\ ignore_next_silent_alarm

C30_Witness ==
    /\ lastCall.op = "on_alarm"
    /\ lastCall.sources = <<"adc", "count", "status">>
    /\ Did(BusRead("status/reboot"))
    /\ lastCall.raised = "none"
    /\ Len(lastCall.log) = 7

C36_UncoveredValueKeepsState ==
    (lastCall.op \in {"on_seen", "on_alarm"} /\ get_state_entry(lastCall.value) = 0) =>
        /\ lastCall.raised = "none"
        /\ current_state = lastCall.state_before

\* C39: every event of adc.1 with is_reset=false names a state other than
\* the one the channel was in before the call that emitted it
C39_TransitionNamesNewState ==
    \A k \in 1..Len(lastCall.events) :
        (lastCall.events[k].channel = "adc.1" /\ ~lastCall.events[k].is_reset)
            => lastCall.events[k].value # lastCall.state_before

---------------------------------------------------------------------------
\* Properties of the MoaT port channels

\* C32: on an alarm for a MoaT port channel the value is re-read and cached;
\* an output or toggle-input channel emits ON (value equals the active
\* level) or OFF, with is_reset=false, if and only if the value differs from
\* the cached one, and a momentary-input channel emits TRIGGED
C32_PortAlarmEvents ==
    lastPort.op = "on_alarm" =>
        LET n == lastPort.ch
            mode == port_modes[n]
            on_off == IF (lastPort.read = 1) = is_active_high(mode) THEN "ON" ELSE "OFF"
        IN  /\ port_values[n] = lastPort.read
            /\ lastPort.raised = "none"
            /\ lastPort.events =
                  IF is_output(mode) \/ is_input_toggle(mode)
                  THEN (IF lastPort.read # lastPort.prev_value
                        THEN <<OwPIOEvent(PortName(n), on_off, FALSE)>>
                        ELSE <<>>)
                  ELSE <<OwPIOEvent(PortName(n), "TRIGGED", FALSE)>>

--------------------------------------------------------------------------
\* Properties of the action handler

HandledType == lastHandled.event_type

\* last_occurred is the event's timestamp after every occurrence; last_ran
\* is set, and the actions are gone through, only when the shared
\* conditional held, and then every action is gone through whatever the ones
\* before it did
TimestampsAndActions ==
    /\ \A e \in EventTypes :
          /\ e \in occurred <=> event_cfgs[e].last_occurred # -1
          /\ e \in accepted <=> event_cfgs[e].last_ran # -1
    /\ lastHandled.matched =>
          /\ event_cfgs[HandledType].last_occurred = lastHandled.timestamp
          /\ lastHandled.when = "true" =>
                /\ event_cfgs[HandledType].last_ran = lastHandled.at
                /\ Len(lastHandled.outcomes) = NumActions(HandledType)
                /\ \A a \in ActionIds :
                      (a[1] = HandledType /\ lastHandled.outcomes[a[2]] # "rejected")
                          => action_last_ran[a] = lastHandled.at
          /\ lastHandled.when # "true" =>
                /\ lastHandled.outcomes = <<>>
                /\ lastHandled.first_accepted => event_cfgs[HandledType].last_ran = -1
                /\ lastHandled.since_last_run.kind = "float" =>
                      event_cfgs[HandledType].last_ran =
                          lastHandled.at - lastHandled.since_last_run.n

--------------------------------------------------------------------------
\* Properties of parse_target

\* C26: for a canonical ID and a channel name, parse_target('<id>.<channel>')
\* returns (id, channel); for a canonical ID alone it returns (id, None)
C26_ParseTargetSplits ==
    (given # <<>> /\ given[1] \in CanonicalIds) => parsed = given

---------------------------------------------------------------------------
\* Properties of the InfluxDB handler

\* the lines in the queue, without the None that shutdown puts
QueuedLines == SelectSeq(influx_queue, LAMBDA x : x # 0)

\* the last line handle_event has finished with
LastLine == IF hpc \in {"put", "get"} THEN next_line - 1 ELSE next_line

\* C27: handle_event never waits: each of its queue calls returns or raises
\* at once, and it calls put at most twice; the queue never holds more than
\* max_queue_size lines, and they are the most recent lines in their order:
\* what handle_event discards is older than every line it keeps
C27_KeepsMostRecent ==
    /\ hpc \in {"put", "get"} => ENABLED (HandlePut \/ HandleGet)
    /\ attempts <= 2
    /\ Len(influx_queue) <= max_queue_size
    /\ \A k \in 1..Len(QueuedLines) :
          QueuedLines[k] = LastLine - Len(QueuedLines) + k
    /\ \A d \in dropped : \A k \in 1..Len(QueuedLines) : d < QueuedLines[k]

\* the queue was full, the oldest line went and the new one is in
C27_Witness ==
    /\ hpc = "idle"
    /\ attempts = 2
    /\ max_queue_size = 2
    /\ dropped = {1}
    /\ influx_queue = <<2, 3>>

\* C40: shutdown() terminates once the send thread has consumed every line
\* still in the queue, also when handle_event has discarded lines before
C40_ShutdownTerminates ==
    (spc = "join" /\ influx_queue = <<>>) ~> (spc = "done")

\* the same for the executions in which no line was discarded
ShutdownTerminatesWithoutDrops ==
    (spc = "join" /\ influx_queue = <<>> /\ dropped = {}) ~> (spc = "done")

=========================================================================
